---------------------------- MODULE Spec2Model ----------------------------
(***************************************************************************)
(* OpenRouterClient.createChatCompletion: cache lookup, vendor request,    *)
(* structured-output extraction, cache write and retry-by-recursion.       *)
(*                                                                         *)
(* The repository holds two near-duplicate copies of the client:           *)
(*   "native"       src/lib/llm/OpenRouterClient.ts (response_format, a    *)
(*                  bare JSON.parse of message.content)                    *)
(*   "instructions" src/unnamed/part_001 lines 49-608 (schema instruction  *)
(*                  message, content / tool-call selection, fence          *)
(*                  stripping and brace search)                            *)
(* The variable variant says which copy runs in a behaviour.               *)
(*                                                                         *)
(* An async call is modelled between its suspension points: the await of   *)
(* cache.get, the await of chat.completions.create and the await of        *)
(* cache.set.  Each action runs the code from one resumption to the next   *)
(* suspension (or to the return / throw).                                  *)
(*                                                                         *)
(* Optional values (undefined / null in the source) are sequences: <<>> is *)
(* absent, <<v>> is present.  Texts are sequences of tokens.               *)
(***************************************************************************)
EXTENDS Integers, Sequences, FiniteSets, TLC

\* Largest retry budget a caller passes.
MaxRetries == 2

\* Largest retry budget of the calls of the concurrent specification.
MaxConcRetries == 1

Calls == {"c1", "c2"}

\* The call slot of the caller that makes one call after the other.
SeqCalls == {"c1"}

None == <<>>
Some(v) == <<v>>
IsSome(o) == Len(o) > 0
Val(o) == o[1]

\* (x || d) of the source, for an optional value whose falsy forms are the
\* absent value and the value falsy.
OrDefault(o, falsy, d) == IF IsSome(o) /\ Val(o) # falsy THEN Val(o) ELSE d

-----------------------------------------------------------------------------
(* Texts and JSON *)

\* Tokens of a model reply: braces, two members ("a" stands for "a":1, "b"
\* for "b":2), the literal null, a prose word, the markdown fence marker
\* (three backticks, written "fence") and the language tag json that may
\* follow it.
Tokens == {"{", "}", "a", "b", "null", "w", "fence", "json"}

Members == {"a", "b"}

\* JSON.parse on a token text: an object of members, or the literal null.
\* ok = FALSE stands for the SyntaxError it throws.
JSONParse(t) ==
  IF t = <<"null">>
    THEN [ok |-> TRUE, value |-> [type |-> "null", keys |-> {}]]
  ELSE IF /\ Len(t) >= 2
          /\ t[1] = "{"
          /\ t[Len(t)] = "}"
          /\ \A i \in 2..(Len(t) - 1) : t[i] \in Members
    THEN [ok |-> TRUE,
          value |-> [type |-> "object",
                     keys |-> {t[i] : i \in 2..(Len(t) - 1)}]]
  ELSE [ok |-> FALSE, value |-> [type |-> "undefined", keys |-> {}]]

\* JSON.parse(null): the argument is coerced to the string "null".
JSONParseOpt(o) == JSONParse(IF IsSome(o) THEN Val(o) ELSE <<"null">>)

RECURSIVE DropFenceJson(_)
\* .replace(/<fence>json\n?/g, "")
DropFenceJson(t) ==
  IF Len(t) = 0 THEN <<>>
  ELSE IF Len(t) >= 2 /\ t[1] = "fence" /\ t[2] = "json"
    THEN DropFenceJson(SubSeq(t, 3, Len(t)))
  ELSE <<t[1]>> \o DropFenceJson(Tail(t))

IsNotFence(x) == x # "fence"

\* .replace(/<fence>\n?/g, "")
DropFence(t) == SelectSeq(t, IsNotFence)

StripFences(t) == DropFence(DropFenceJson(t))

\* A match that must begin at the start of the text.
BraceMatch_Anchored(t) ==
  LET closes == {j \in 2..Len(t) : t[j] = "}"}
  IN IF Len(t) >= 2 /\ t[1] = "{" /\ closes # {}
       THEN Some(SubSeq(t, 1, CHOOSE j \in closes : \A k \in closes : k <= j))
       ELSE None

\* cleanedData.match(/\{[\s\S]*\}/): the regex is greedy, so the match runs
\* from the first "{" to the last "}" after it; <<>> when there is no match
\* (a match is never empty, it holds at least both braces).
BraceMatch(t) ==
  LET opens == {i \in 1..Len(t) : t[i] = "{"}
  IN IF opens = {} THEN None
     ELSE LET first == CHOOSE i \in opens : \A j \in opens : i <= j
              closes == {j \in 1..Len(t) : t[j] = "}" /\ j > first}
          IN IF closes = {} THEN None
             ELSE LET last == CHOOSE j \in closes : \A k \in closes : k <= j
                  IN Some(SubSeq(t, first, last))

\* The response_model schemas of the callers: z.object({a: z.number()}), its
\* nullable form, and the same object with a further optional member, a
\* schema that zodResponseFormat refuses.  Unknown members are stripped by
\* zod, not rejected.
Schemas == {"objA", "objA_nullable", "objA_optional"}

\* validateZodSchema(schema, data): TRUE when it returns, FALSE when it
\* throws ZodSchemaValidationError.
validateZodSchema(schema, v) ==
  \/ v.type = "object" /\ "a" \in v.keys
  \/ v.type = "null" /\ schema = "objA_nullable"

-----------------------------------------------------------------------------
(* Requests and the cache key *)

\* this.modelName of the clients that share one cache.
ModelNames == {"grok-4", "gpt-4o"}

TextContent(t) == [kind |-> "text", text |-> t, parts |-> <<>>]
PartsContent(ps) == [kind |-> "parts", text |-> "", parts |-> ps]
TextPart(t) == [type |-> "text", text |-> t, url |-> ""]
ImagePart(u) == [type |-> "image_url", text |-> "", url |-> u]

Tool1 ==
  [name |-> "click", description |-> "click an element",
   parameters |-> [properties |-> {"selector"}, required |-> <<"selector">>]]

\* A structured-output request: options of CreateChatCompletionOptions.
Base ==
  [messages |-> << [role |-> "system", content |-> TextContent("sys")],
                   [role |-> "user", content |-> TextContent("ask")] >>,
   temperature |-> None,
   top_p |-> None,
   frequency_penalty |-> None,
   presence_penalty |-> None,
   image |-> None,
   response_model |-> Some([schema |-> "objA", name |-> "Extraction"]),
   tools |-> None,
   tool_choice |-> None,
   maxTokens |-> None,
   requestId |-> "r1"]

\* The requests of the gateway specification: the structured request under
\* two request ids, the same with a schema that admits null, and the same
\* conversation without a response_model.
MainRequests ==
  { Base,
    [Base EXCEPT !.requestId = "r2"],
    [Base EXCEPT !.response_model =
        Some([schema |-> "objA_nullable", name |-> "Extraction"])],
    [Base EXCEPT !.response_model = None] }

\* The requests of the concurrent specification: one fingerprint, two ids.
ConcRequests == { Base, [Base EXCEPT !.requestId = "r2"] }

\* Base with one field changed, every field in turn.
Variations ==
  { [Base EXCEPT !.messages = Append(@, [role |-> "user",
                                           content |-> TextContent("more")])],
    [Base EXCEPT !.messages[2].content = TextContent("other")],
    [Base EXCEPT !.messages[2].content =
        PartsContent(<<TextPart("ask"), ImagePart("u1")>>)],
    [Base EXCEPT !.temperature = Some(0)],
    [Base EXCEPT !.temperature = Some(7)],
    [Base EXCEPT !.top_p = Some(9)],
    [Base EXCEPT !.frequency_penalty = Some(1)],
    [Base EXCEPT !.presence_penalty = Some(1)],
    [Base EXCEPT !.image = Some([buffer |-> "png1", description |-> None])],
    [Base EXCEPT !.image = Some([buffer |-> "png2", description |-> None])],
    [Base EXCEPT !.response_model = None],
    [Base EXCEPT !.response_model =
        Some([schema |-> "objA_nullable", name |-> "Extraction"])],
    [Base EXCEPT !.response_model =
        Some([schema |-> "objA", name |-> "Other"])],
    [Base EXCEPT !.tools = Some(<<Tool1>>)],
    [Base EXCEPT !.tool_choice = Some("required")],
    [Base EXCEPT !.maxTokens = Some(100)] }

\* The requests of the key specification, each under both request ids.
KeyRequests ==
  LET one == {Base} \cup Variations
  IN one \cup {[r EXCEPT !.requestId = "r2"] : r \in one}

\* cacheOptions with the request id among its fields.
cacheOptions_WithRequestId(modelName, options) ==
  [model |-> modelName,
   messages |-> options.messages,
   temperature |-> options.temperature,
   top_p |-> options.top_p,
   frequency_penalty |-> options.frequency_penalty,
   presence_penalty |-> options.presence_penalty,
   image |-> options.image,
   response_model |-> options.response_model,
   tools |-> options.tools,
   tool_choice |-> options.tool_choice,
   maxTokens |-> options.maxTokens,
   requestId |-> options.requestId]

\* cacheOptions that leaves the caller's tools out.
cacheOptions_NoTools(modelName, options) ==
  [model |-> modelName,
   messages |-> options.messages,
   temperature |-> options.temperature,
   top_p |-> options.top_p,
   frequency_penalty |-> options.frequency_penalty,
   presence_penalty |-> options.presence_penalty,
   image |-> options.image,
   response_model |-> options.response_model,
   tools |-> None,
   tool_choice |-> options.tool_choice,
   maxTokens |-> options.maxTokens]

\* The key object handed to cache.get and cache.set.
cacheOptions(modelName, options) ==
  [model |-> modelName,
   messages |-> options.messages,
   temperature |-> options.temperature,
   top_p |-> options.top_p,
   frequency_penalty |-> options.frequency_penalty,
   presence_penalty |-> options.presence_penalty,
   image |-> options.image,
   response_model |-> options.response_model,
   tools |-> options.tools,
   tool_choice |-> options.tool_choice,
   maxTokens |-> options.maxTokens]

-----------------------------------------------------------------------------
(* The vendor request *)

\* Temperatures are in tenths: 7 is the 0.7 of (options.temperature || 0.7).
DefaultTemperature == 7

\* textContent / imageContent: the vendor's content parts.
FormatTextPart(part) == [type |-> "text", text |-> part.text]
FormatImagePart(part) == [type |-> "image_url", image_url |-> [url |-> part.url]]

\* message.content.map(...): "image_url" in content picks the image form.
contentParts(parts) ==
  [i \in 1..Len(parts) |->
     IF parts[i].type = "image_url"
       THEN FormatImagePart(parts[i])
       ELSE FormatTextPart(parts[i])]

IsTextPart(part) == part.type = "text"

\* formattedMessage that keeps the image parts whatever the role.
formattedMessage_KeepsAllParts(message) ==
  IF message.content.kind = "parts"
    THEN [role |-> message.role,
          content |-> PartsContent(contentParts(message.content.parts))]
    ELSE [role |-> message.role, content |-> message.content]

\* One element of formattedMessages.  A list of parts is kept whole for role
\* user and filtered to its text parts for role system and for any other
\* role, which is sent as assistant; a string content is sent under role
\* system, assistant or, for any other role, user.
formattedMessage(message) ==
  IF message.content.kind = "parts"
    THEN LET parts == contentParts(message.content.parts)
         IN IF message.role = "system"
              THEN [role |-> "system",
                    content |-> PartsContent(SelectSeq(parts, IsTextPart))]
            ELSE IF message.role = "user"
              THEN [role |-> "user", content |-> PartsContent(parts)]
            ELSE [role |-> "assistant",
                  content |-> PartsContent(SelectSeq(parts, IsTextPart))]
    ELSE IF message.role = "system"
      THEN [role |-> "system", content |-> message.content]
    ELSE IF message.role = "assistant"
      THEN [role |-> "assistant", content |-> message.content]
    ELSE [role |-> "user", content |-> message.content]

\* data:image/png;base64,<buffer.toString("base64")>
DataUrl(buffer) == "data:image/png;base64," \o buffer

DefaultImagePrompt == "Please analyze this image."

\* The message pushed for options.image.
imageMessage(image) ==
  [role |-> "user",
   content |-> PartsContent(
     << [type |-> "text",
         text |-> OrDefault(image.description, "", DefaultImagePrompt)],
        [type |-> "image_url",
         image_url |-> [url |-> DataUrl(image.buffer)]] >>)]

\* One element of tools: the function entry of a caller's tool.
FormatTool(tool) ==
  [type |-> "function",
   function |-> [name |-> tool.name,
                 description |-> tool.description,
                 parameters |-> [type |-> "object",
                                 properties |-> tool.parameters.properties,
                                 required |-> tool.parameters.required]]]

\* options.tools?.map(...)
FormatTools(tools) ==
  IF IsSome(tools)
    THEN Some([i \in 1..Len(Val(tools)) |-> FormatTool(Val(tools)[i])])
    ELSE None

\* tool_choice that does not look at the tools.
ToolChoice_WithoutTools(tools, tool_choice) ==
  Some(OrDefault(tool_choice, "", "auto"))

\* tools && tools.length > 0 ? options.tool_choice || "auto" : undefined
ToolChoice(tools, tool_choice) ==
  IF IsSome(tools) /\ Len(Val(tools)) > 0
    THEN Some(OrDefault(tool_choice, "", "auto"))
    ELSE None

\* zodResponseFormat(schema, name): the response_format, or None when the
\* helper throws because the schema has no strict JSON-schema form.
zodResponseFormat(schema, name) ==
  IF schema = "objA_optional"
    THEN None
    ELSE Some([type |-> "json_schema",
               json_schema |-> [name |-> name, strict |-> TRUE,
                                schema |-> schema]])

\* The user message that carries the schema as an instruction; the two
\* copies word it differently.
SchemaInstruction(v, schema) ==
  [role |-> "user",
   content |-> TextContent(
     (IF v = "native"
        THEN "Respond in this JSON schema format: "
        ELSE "Respond with ONLY valid JSON that matches this exact schema: ")
       \o schema)]

\* responseFormat of a request: the native copy asks for response_format
\* unless zodResponseFormat throws, the instruction-based copy never does.
ResponseFormat(v, response_model) ==
  IF v = "native" /\ IsSome(response_model)
    THEN zodResponseFormat(Val(response_model).schema, Val(response_model).name)
    ELSE None

\* formattedMessages with the schema instruction pushed before the image
\* message.
FormattedMessages_InstructionFirst(v, options) ==
  [i \in 1..Len(options.messages) |-> formattedMessage(options.messages[i])]
    \o (IF /\ IsSome(options.response_model)
           /\ ~IsSome(ResponseFormat(v, options.response_model))
          THEN <<SchemaInstruction(v, Val(options.response_model).schema)>>
          ELSE <<>>)
    \o (IF IsSome(options.image)
          THEN <<imageMessage(Val(options.image))>> ELSE <<>>)

\* formattedMessages with the schema instruction pushed whenever there is a
\* response_model, native response_format or not.
FormattedMessages_AlwaysInstruction(v, options) ==
  [i \in 1..Len(options.messages) |-> formattedMessage(options.messages[i])]
    \o (IF IsSome(options.image)
          THEN <<imageMessage(Val(options.image))>> ELSE <<>>)
    \o (IF IsSome(options.response_model)
          THEN <<SchemaInstruction(v, Val(options.response_model).schema)>>
          ELSE <<>>)

\* formattedMessages when chat.completions.create is called.
FormattedMessages(v, options) ==
  [i \in 1..Len(options.messages) |-> formattedMessage(options.messages[i])]
    \o (IF IsSome(options.image)
          THEN <<imageMessage(Val(options.image))>> ELSE <<>>)
    \o (IF /\ IsSome(options.response_model)
           /\ ~IsSome(ResponseFormat(v, options.response_model))
          THEN <<SchemaInstruction(v, Val(options.response_model).schema)>>
          ELSE <<>>)

\* The argument of this.client.chat.completions.create.
BuildRequest(v, modelName, options) ==
  [model |-> modelName,
   messages |-> FormattedMessages(v, options),
   temperature |-> OrDefault(options.temperature, 0, DefaultTemperature),
   max_tokens |-> options.maxTokens,
   tools |-> FormatTools(options.tools),
   tool_choice |-> ToolChoice(FormatTools(options.tools), options.tool_choice),
   response_format |-> ResponseFormat(v, options.response_model),
   top_p |-> options.top_p,
   frequency_penalty |-> options.frequency_penalty,
   presence_penalty |-> options.presence_penalty]

-----------------------------------------------------------------------------
(* Vendor replies and the canonical response *)

FullUsage == [prompt_tokens |-> Some(3), completion_tokens |-> Some(4),
              total_tokens |-> Some(7)]

Reply(content, toolCalls, usage) ==
  [id |-> "gen-1", created |-> 1, content |-> content,
   tool_calls |-> toolCalls, finish_reason |-> Some("stop"), usage |-> usage]

ToolCall(args) == [id |-> "call-1", name |-> "click", arguments |-> args]

\* What chat.completions.create can resolve with.
Replies ==
  { Reply(Some(<<"{", "a", "}">>), None, Some(FullUsage)),
    Reply(Some(<<"{", "a", "b", "}">>), None, Some(FullUsage)),
    Reply(Some(<<"{", "b", "}">>), None, Some(FullUsage)),
    Reply(Some(<<"w", "fence", "json", "{", "a", "}", "fence">>), None,
          Some(FullUsage)),
    Reply(Some(<<"w", "{", "a", "}", "w", "{", "b", "}">>), None,
          Some(FullUsage)),
    Reply(Some(<<"{", "w", "}">>), None, Some(FullUsage)),
    Reply(Some(<<"w">>), None, None),
    Reply(Some(<<>>), None, Some(FullUsage)),
    Reply(None, Some(<<ToolCall(<<"{", "a", "}">>)>>), Some(FullUsage)),
    Reply(None, Some(<<>>), Some(FullUsage)),
    Reply(None, None, None) }

\* The replies of the concurrent specification: two values that satisfy the
\* schema and one that does not.
ConcReplies ==
  { Reply(Some(<<"{", "a", "}">>), None, Some(FullUsage)),
    Reply(Some(<<"{", "a", "b", "}">>), None, Some(FullUsage)),
    Reply(Some(<<"{", "b", "}">>), None, Some(FullUsage)) }

UsageField(usage, f) ==
  IF IsSome(usage) THEN OrDefault(Val(usage)[f], 0, 0) ELSE 0

\* BuildResponse that passes the vendor's content on as it is.
BuildResponse_KeepsEmptyContent(modelName, r) ==
  [id |-> r.id,
   object |-> "chat.completion",
   created |-> r.created,
   model |-> modelName,
   choices |-> << [index |-> 0,
                   message |->
                     [role |-> "assistant",
                      content |-> r.content,
                      tool_calls |-> IF IsSome(r.tool_calls)
                                       THEN Val(r.tool_calls) ELSE <<>>],
                   finish_reason |-> OrDefault(r.finish_reason, "", "stop")] >>,
   usage |-> [prompt_tokens |-> UsageField(r.usage, "prompt_tokens"),
              completion_tokens |-> UsageField(r.usage, "completion_tokens"),
              total_tokens |-> UsageField(r.usage, "total_tokens")]]

\* The LLMResponse built from the vendor reply.
BuildResponse(modelName, r) ==
  [id |-> r.id,
   object |-> "chat.completion",
   created |-> r.created,
   model |-> modelName,
   choices |-> << [index |-> 0,
                   message |->
                     [role |-> "assistant",
                      content |-> IF IsSome(r.content) /\ Val(r.content) # <<>>
                                    THEN r.content ELSE None,
                      tool_calls |-> IF IsSome(r.tool_calls)
                                       THEN Val(r.tool_calls) ELSE <<>>],
                   finish_reason |-> OrDefault(r.finish_reason, "", "stop")] >>,
   usage |-> [prompt_tokens |-> UsageField(r.usage, "prompt_tokens"),
              completion_tokens |-> UsageField(r.usage, "completion_tokens"),
              total_tokens |-> UsageField(r.usage, "total_tokens")]]

-----------------------------------------------------------------------------
(* Errors *)

Err(class, message) == [class |-> class, message |-> message]

VendorError == Err("APIError", <<"connection error">>)
CacheBackendError == Err("CacheError", <<"cache backend unavailable">>)
\* this.cache.get on an undefined cache.
UndefinedCacheError ==
  Err("TypeError", <<"Cannot read properties of undefined">>)
SyntaxError == Err("SyntaxError", <<"Unexpected token">>)
ZodSchemaValidationError == Err("ZodSchemaValidationError", <<"Invalid schema">>)

CreateChatCompletionResponseError(message) ==
  Err("CreateChatCompletionResponseError", message)

\* The failure kinds of the error taxonomy, by the place that raises them.
FailKinds == {"request", "missing", "nojson", "malformed", "schema",
              "cacheread", "cachewrite"}

-----------------------------------------------------------------------------
(* Structured-output extraction.  An outcome is                            *)
(*   t = "ok"    the value data passed validation,                         *)
(*   t = "retry" the code returned this.createChatCompletion(retries - 1), *)
(*   t = "throw" err was thrown inside the outer try block.                *)
(* stages lists what ran, fail names the failure.                          *)

Outcome(t, data, err, fail, stages) ==
  [t |-> t, data |-> data, err |-> err, fail |-> fail, stages |-> stages]

NoValue == [type |-> "undefined", keys |-> {}]
NoErr == Err("", <<>>)

\* if (retries > 0) return this.createChatCompletion(...); throw err
RetryOrThrow(retries, err, fail, stages) ==
  IF retries > 0
    THEN Outcome("retry", NoValue, NoErr, fail, stages)
    ELSE Outcome("throw", NoValue, err, fail, stages)

\* Validate that accepts whatever was parsed.
Validate_AcceptsAll(schema, parsed, retries, stages) ==
  Outcome("ok", parsed, NoErr, "", stages \cup {"validate"})

\* validateZodSchema and its catch block.
Validate(schema, parsed, retries, stages) ==
  IF validateZodSchema(schema, parsed)
    THEN Outcome("ok", parsed, NoErr, "", stages \cup {"validate"})
    ELSE RetryOrThrow(retries,
           CreateChatCompletionResponseError(ZodSchemaValidationError.message),
           "schema", stages \cup {"validate"})

\* The text the instruction-based copy decodes: message.content, else the
\* arguments of the first tool call, else nothing.
SelectRaw(message) ==
  IF IsSome(message.content) THEN message.content
  ELSE IF Len(message.tool_calls) > 0
    THEN Some(message.tool_calls[1].arguments)
  ELSE None

\* The instruction-based copy's extraction with no direct parse: the fence
\* markers are dropped and the brace span searched on every text.
ExtractInstructions_StripsFirst(response, schema, retries) ==
  LET raw == SelectRaw(response.choices[1].message)
  IN IF ~IsSome(raw)
       THEN RetryOrThrow(retries,
              CreateChatCompletionResponseError(<<"No content or tool calls found">>),
              "missing", {"select"})
     ELSE LET jsonMatch == BraceMatch(StripFences(Val(raw)))
              st == {"select", "strip", "match"}
          IN IF ~IsSome(jsonMatch)
               THEN RetryOrThrow(retries,
                      CreateChatCompletionResponseError(
                        <<"No JSON found in OpenRouter response">>),
                      "nojson", st)
             ELSE LET second == JSONParse(Val(jsonMatch))
                  IN IF second.ok
                       THEN Validate(schema, second.value, retries,
                                     st \cup {"reparse"})
                     ELSE RetryOrThrow(retries,
                            CreateChatCompletionResponseError(
                              <<"Failed to parse OpenRouter response as JSON">>),
                            "malformed", st \cup {"reparse"})

\* The instruction-based copy's extraction.
ExtractInstructions(response, schema, retries) ==
  LET raw == SelectRaw(response.choices[1].message)
  IN IF ~IsSome(raw)
       THEN RetryOrThrow(retries,
              CreateChatCompletionResponseError(<<"No content or tool calls found">>),
              "missing", {"select"})
     ELSE LET direct == JSONParse(Val(raw))
          IN IF direct.ok
               THEN Validate(schema, direct.value, retries, {"select", "parse"})
             ELSE LET cleaned == StripFences(Val(raw))
                      jsonMatch == BraceMatch(cleaned)
                      st == {"select", "parse", "strip", "match"}
                  IN IF ~IsSome(jsonMatch)
                       THEN RetryOrThrow(retries,
                              CreateChatCompletionResponseError(
                                <<"No JSON found in OpenRouter response">>
                                  \o SyntaxError.message),
                              "nojson", st)
                     ELSE LET second == JSONParse(Val(jsonMatch))
                          IN IF second.ok
                               THEN Validate(schema, second.value, retries,
                                             st \cup {"reparse"})
                             ELSE RetryOrThrow(retries,
                                    CreateChatCompletionResponseError(
                                      <<"Failed to parse OpenRouter response as JSON">>
                                        \o SyntaxError.message),
                                    "malformed", st \cup {"reparse"})

\* The native copy's extraction: JSON.parse(message.content), unguarded.
ExtractNative(response, schema, retries) ==
  LET parsed == JSONParseOpt(response.choices[1].message.content)
  IN IF parsed.ok
       THEN Validate(schema, parsed.value, retries, {"parse"})
       ELSE Outcome("throw", NoValue, SyntaxError, "malformed", {"parse"})

\* The extraction of the copy v.
Extract(v, response, schema, retries) ==
  IF v = "native"
    THEN ExtractNative(response, schema, retries)
    ELSE ExtractInstructions(response, schema, retries)

-----------------------------------------------------------------------------
(* The gateway *)

VARIABLES
  variant,        \* which copy of the client runs
  enableCachingArg, \* the constructor's enableCaching argument, if given
  enableCaching,  \* this.enableCaching
  hasCache,       \* whether a cache object was handed to the constructor
  cache,          \* the shared LLMCache: key object -> entry
  call,           \* the state of each createChatCompletion call
  keyIn,          \* key specification: the two (client model, options, retries)
  keyObj,         \* key specification: the key object each side built
  keyGot,         \* key specification: what the reader's lookup returned
  fmtIn,          \* request specification: the caller's options
  fmtOut,         \* request specification: the vendor request built from them
  exIn,           \* extraction specification: vendor reply, schema, retries
  exOut,          \* extraction specification: the outcome of the extraction
  task            \* evaluation specification: one run of an evaluation task

clientVars == <<variant, enableCachingArg, enableCaching, hasCache>>
keyVars == <<keyIn, keyObj, keyGot>>
fmtVars == <<fmtIn, fmtOut>>
exVars == <<exIn, exOut>>
evalVars == <<task>>
\* The variables of the specifications of the pure parts and of the
\* evaluation task.
pureVars == <<keyVars, fmtVars, exVars, evalVars>>
vars == <<clientVars, cache, call, pureVars>>

\* No evaluation task is running.  runner and own are the wrapper the runner
\* creates and the one the task function creates: "none" before init() has
\* resolved, "open" after, "closed" once close() has been called.
IdleTask ==
  [pc |-> "idle", runner |-> "none", own |-> "none", threw |-> FALSE,
   extracted |-> None, taskResult |-> None, result |-> None]

\* LLMCache.get(key, requestId): the entry stored under the key, if any.
CacheLookup(store, key) ==
  IF key \in DOMAIN store THEN Some(store[key]) ELSE None

\* LLMCache.set(key, entry, requestId): overwrite, last writer wins.
CacheStore(store, key, entry) ==
  [k \in DOMAIN store \cup {key} |-> IF k = key THEN entry ELSE store[k]]

EmptyCache == [k \in {} |-> None]

Variants == {"native", "instructions"}

\* this.modelName of the client the calls of the gateway specification use.
ClientModel == "grok-4"

KeyOf(s) == cacheOptions(ClientModel, s.options)

\* A call that has not started.  The fields after error are history: they
\* record what the call did and are read by no action.  vendorReqs counts the
\* vendor requests of the call, writes its cache writes, fails holds the
\* failure kinds of its attempts, raised is the error last thrown into a
\* catch block (or out of the call); attemptReqs, stages, hit, validated and
\* reply describe the current attempt; request is the vendor request last
\* sent, inFlight the number of vendor requests of the call that have not
\* resolved, failures the number of its attempts that failed.
IdleCall ==
  [pc |-> "idle", options |-> Base, retries0 |-> 0, retries |-> 0,
   pending |-> None, result |-> None, error |-> None,
   vendorReqs |-> 0, attemptReqs |-> 0, stages |-> {}, hit |-> None,
   validated |-> None, reply |-> None, lastFail |-> None, raised |-> None,
   fails |-> {}, writes |-> 0, request |-> None, inFlight |-> 0,
   failures |-> 0]

\* From the suspension point of chat.completions.create on: the request,
\* built from the caller's options, is in flight.
SendRequest(s) ==
  [s EXCEPT !.pc = "vendor", !.vendorReqs = @ + 1, !.attemptReqs = @ + 1,
            !.inFlight = @ + 1,
            !.request = Some(BuildRequest(variant, ClientModel, s.options))]

\* createChatCompletion from its first line to its first suspension point:
\* the cache lookup when caching is enabled, the vendor request otherwise.
\* An undefined cache makes this.cache.get throw before the try block.
Enter(s) ==
  LET fresh == [s EXCEPT !.attemptReqs = 0, !.stages = {}, !.hit = None,
                         !.validated = None, !.reply = None,
                         !.pending = None]
  IN IF enableCaching
       THEN IF hasCache
              THEN [fresh EXCEPT !.pc = "cacheGet"]
              ELSE [fresh EXCEPT !.pc = "failed",
                                 !.error = Some(UndefinedCacheError),
                                 !.raised = Some(UndefinedCacheError),
                                 !.lastFail = Some("cacheread"),
                                 !.fails = @ \cup {"cacheread"},
                                 !.failures = @ + 1]
       ELSE SendRequest(fresh)

\* Retry with the failures counted on the client: the nested call gets the
\* budget less the failures of every call of the client so far.
Retry_SharedBudget(s, fail) ==
  LET RECURSIVE Failures(_)
      Failures(S) ==
        IF S = {} THEN 0
        ELSE LET d == CHOOSE x \in S : TRUE
             IN call[d].failures + Failures(S \ {d})
  IN Enter([s EXCEPT !.retries = s.retries0 - Failures(Calls) - 1,
                     !.lastFail = Some(fail),
                     !.fails = @ \cup {fail}, !.failures = @ + 1])

\* Retry when the attempt pushed its schema instruction onto the caller's
\* options.messages: the nested call finds it there and pushes another.
Retry_KeepsAppendedMessages(s, fail) ==
  Enter([s EXCEPT !.retries = @ - 1, !.lastFail = Some(fail),
                  !.fails = @ \cup {fail}, !.failures = @ + 1,
                  !.options.messages =
                     Append(@, [role |-> "user",
                                content |-> TextContent("schema")])])

\* return this.createChatCompletion({options, retries: retries - 1, logger}):
\* the nested call's promise becomes this call's result, unawaited, so the
\* enclosing catch never sees its rejection.
Retry(s, fail) ==
  Enter([s EXCEPT !.retries = @ - 1, !.lastFail = Some(fail),
                  !.fails = @ \cup {fail}, !.failures = @ + 1])

\* The catch block with its retry guard off by one (retries > 1).
Catch_GuardOffByOne(s, err, fail) ==
  IF s.retries > 1
    THEN Retry([s EXCEPT !.raised = Some(err)], fail)
    ELSE [s EXCEPT !.pc = "failed",
                   !.lastFail = Some(fail),
                   !.fails = @ \cup {fail},
                   !.failures = @ + 1,
                   !.raised = Some(err),
                   !.error = Some(CreateChatCompletionResponseError(
                                <<"OpenRouter request failed">> \o err.message))]

\* The catch block with a retry guard that still retries at zero
\* (retries >= 0).
Catch_RetriesAtZero(s, err, fail) ==
  IF s.retries >= 0
    THEN Retry([s EXCEPT !.raised = Some(err)], fail)
    ELSE [s EXCEPT !.pc = "failed",
                   !.lastFail = Some(fail),
                   !.fails = @ \cup {fail},
                   !.failures = @ + 1,
                   !.raised = Some(err),
                   !.error = Some(CreateChatCompletionResponseError(
                                <<"OpenRouter request failed">> \o err.message))]

\* The catch block when the nested call is awaited inside the try
\* (return await): the terminal error passes through the catch of every
\* enclosing attempt, and each wraps it again.
Catch_RewrapsInEnclosing(s, err, fail) ==
  LET RECURSIVE Wrap(_, _)
      Wrap(message, k) ==
        IF k = 0 THEN message
        ELSE Wrap(<<"OpenRouter request failed">> \o message, k - 1)
  IN IF s.retries > 0
       THEN Retry([s EXCEPT !.raised = Some(err)], fail)
       ELSE [s EXCEPT !.pc = "failed",
                      !.lastFail = Some(fail),
                      !.fails = @ \cup {fail},
                      !.failures = @ + 1,
                      !.raised = Some(err),
                      !.error = Some(CreateChatCompletionResponseError(
                                   Wrap(err.message,
                                        s.retries0 - s.retries + 1)))]

\* The catch block of the outer try.
Catch(s, err, fail) ==
  IF s.retries > 0
    THEN Retry([s EXCEPT !.raised = Some(err)], fail)
    ELSE [s EXCEPT !.pc = "failed",
                   !.lastFail = Some(fail),
                   !.fails = @ \cup {fail},
                   !.failures = @ + 1,
                   !.raised = Some(err),
                   !.error = Some(CreateChatCompletionResponseError(
                                <<"OpenRouter request failed">> \o err.message))]

\* Finish that returns without writing the cache.
Finish_NoCacheWrite(s, result) ==
  [s EXCEPT !.pc = "done", !.result = Some(result)]

\* A result is ready: with caching enabled the call awaits cache.set, without
\* it returns.
Finish(s, result) ==
  IF enableCaching
    THEN [s EXCEPT !.pc = "cacheSet", !.pending = Some(result)]
    ELSE [s EXCEPT !.pc = "done", !.result = Some(result)]

\* OnReply that hands whatever the content parses to on to the cache write
\* when validation has refused it.
OnReply_CachesUnvalidated(s, r) ==
  LET response == BuildResponse(ClientModel, r)
  IN IF IsSome(s.options.response_model)
       THEN LET schema == Val(s.options.response_model).schema
                o == Extract(variant, response, schema, s.retries)
                parsed == JSONParseOpt(response.choices[1].message.content)
                seen == [s EXCEPT !.stages = o.stages, !.reply = Some(r)]
            IN CASE o.t = "ok" ->
                      Finish([seen EXCEPT !.validated = Some(o.data)],
                             [data |-> o.data, usage |-> response.usage])
                 [] o.t # "ok" /\ parsed.ok ->
                      Finish(seen, [data |-> parsed.value,
                                    usage |-> response.usage])
                 [] o.t = "retry" -> Retry(seen, o.fail)
                 [] OTHER -> Catch(seen, o.err, o.fail)
       ELSE Finish([s EXCEPT !.reply = Some(r)], response)

\* OnReply that runs the response_model block on every reply, against the
\* schema objA when the caller gave no response_model.
OnReply_AlwaysExtracts(s, r) ==
  LET response == BuildResponse(ClientModel, r)
      schema == IF IsSome(s.options.response_model)
                  THEN Val(s.options.response_model).schema ELSE "objA"
      o == Extract(variant, response, schema, s.retries)
      seen == [s EXCEPT !.stages = o.stages, !.reply = Some(r)]
  IN CASE o.t = "ok" ->
            Finish([seen EXCEPT !.validated = Some(o.data)],
                   [data |-> o.data, usage |-> response.usage])
       [] o.t = "retry" -> Retry(seen, o.fail)
       [] OTHER -> Catch(seen, o.err, o.fail)

\* The code that runs when chat.completions.create resolves with reply r.
OnReply(s, r) ==
  LET response == BuildResponse(ClientModel, r)
  IN IF IsSome(s.options.response_model)
       THEN LET schema == Val(s.options.response_model).schema
                o == Extract(variant, response, schema, s.retries)
                seen == [s EXCEPT !.stages = o.stages, !.reply = Some(r)]
            IN CASE o.t = "ok" ->
                      Finish([seen EXCEPT !.validated = Some(o.data)],
                             [data |-> o.data, usage |-> response.usage])
                 [] o.t = "retry" -> Retry(seen, o.fail)
                 [] OTHER -> Catch(seen, o.err, o.fail)
       ELSE Finish([s EXCEPT !.reply = Some(r)], response)

Init ==
  /\ variant \in Variants
  /\ enableCaching \in BOOLEAN
  /\ enableCachingArg = Some(enableCaching)
  /\ hasCache \in BOOLEAN
  /\ cache = EmptyCache
  /\ call = [c \in Calls |-> IdleCall]
  /\ keyIn = <<>>
  /\ keyObj = <<>>
  /\ keyGot = None
  /\ fmtIn = None
  /\ fmtOut = None
  /\ exIn = None
  /\ exOut = None
  /\ task = IdleTask

\* A caller invokes createChatCompletion({options, retries: n, logger}).
Start(c, options, n) ==
  /\ call[c].pc = "idle"
  /\ call' = [call EXCEPT ![c] =
                Enter([IdleCall EXCEPT !.options = options,
                                       !.retries0 = n, !.retries = n])]
  /\ UNCHANGED <<clientVars, cache, pureVars>>

Terminal == {"done", "failed"}

\* The caller of the gateway specification makes any request with any budget.
Call(c) ==
  \E options \in MainRequests, n \in 0..MaxRetries : Start(c, options, n)

\* The caller has received the result or the error of a settled call and is
\* free to call again; the cache keeps what the call wrote.
Settle(c) ==
  /\ call[c].pc \in Terminal
  /\ call' = [call EXCEPT ![c] = IdleCall]
  /\ UNCHANGED <<clientVars, cache, pureVars>>

\* The callers of the concurrent specification invoke at any time.
ConcCall(c) ==
  \E options \in ConcRequests, n \in 0..MaxConcRetries : Start(c, options, n)

\* cache.get resolves, and the hit branch lacks its return statement.
CacheGetResolves_FallsThrough(c) ==
  /\ call[c].pc = "cacheGet"
  /\ LET s == call[c]
         cachedResponse == CacheLookup(cache, KeyOf(s))
     IN call' = [call EXCEPT ![c] =
                   [SendRequest(s) EXCEPT !.hit = cachedResponse]]
  /\ UNCHANGED <<clientVars, cache, pureVars>>

\* cache.get resolves: a truthy entry is returned as is, anything else is a
\* miss and the vendor request goes out.
CacheGetResolves(c) ==
  /\ call[c].pc = "cacheGet"
  /\ LET s == call[c]
         cachedResponse == CacheLookup(cache, KeyOf(s))
     IN call' = [call EXCEPT ![c] =
                   IF IsSome(cachedResponse)
                     THEN [s EXCEPT !.pc = "done", !.hit = cachedResponse,
                                    !.result = cachedResponse]
                     ELSE SendRequest(s)]
  /\ UNCHANGED <<clientVars, cache, pureVars>>

\* cache.get rejects: the await is outside the try block.
CacheGetRejects(c) ==
  /\ call[c].pc = "cacheGet"
  /\ call' = [call EXCEPT ![c] =
                [@ EXCEPT !.pc = "failed", !.error = Some(CacheBackendError),
                          !.raised = Some(CacheBackendError),
                          !.lastFail = Some("cacheread"),
                          !.fails = @ \cup {"cacheread"},
                          !.failures = @ + 1]]
  /\ UNCHANGED <<clientVars, cache, pureVars>>

\* chat.completions.create resolves with reply r.
Resolve(c, r) ==
  /\ call[c].pc = "vendor"
  /\ call' = [call EXCEPT ![c] = OnReply([@ EXCEPT !.inFlight = @ - 1], r)]
  /\ UNCHANGED <<clientVars, cache, pureVars>>

VendorReplies(c) == \E r \in Replies : Resolve(c, r)

ConcVendorReplies(c) == \E r \in ConcReplies : Resolve(c, r)

\* The catch block runs on a vendor failure while the request is still
\* outstanding, as when a timer and not the awaited promise starts it.
VendorRejects_WithoutAwait(c) ==
  /\ call[c].pc = "vendor"
  /\ call' = [call EXCEPT ![c] = Catch(@, VendorError, "request")]
  /\ UNCHANGED <<clientVars, cache, pureVars>>

\* chat.completions.create rejects.
VendorRejects(c) ==
  /\ call[c].pc = "vendor"
  /\ call' = [call EXCEPT ![c] =
                Catch([@ EXCEPT !.inFlight = @ - 1], VendorError, "request")]
  /\ UNCHANGED <<clientVars, cache, pureVars>>

\* cache.set resolves, having stored the entry without its usage counters.
CacheSetResolves_StoresOther(c) ==
  /\ call[c].pc = "cacheSet"
  /\ cache' = CacheStore(cache, KeyOf(call[c]),
                         [Val(call[c].pending) EXCEPT !.usage.total_tokens = 0])
  /\ call' = [call EXCEPT ![c] =
                [@ EXCEPT !.pc = "done", !.result = call[c].pending,
                          !.writes = @ + 1]]
  /\ UNCHANGED <<clientVars, pureVars>>

\* cache.set resolves: the entry is stored and the result returned.
CacheSetResolves(c) ==
  /\ call[c].pc = "cacheSet"
  /\ cache' = CacheStore(cache, KeyOf(call[c]), Val(call[c].pending))
  /\ call' = [call EXCEPT ![c] =
                [@ EXCEPT !.pc = "done", !.result = call[c].pending,
                          !.writes = @ + 1]]
  /\ UNCHANGED <<clientVars, pureVars>>

\* cache.set rejects after having stored an entry without its usage
\* counters.
CacheSetRejects_PartialWrite(c) ==
  /\ call[c].pc = "cacheSet"
  /\ cache' = CacheStore(cache, KeyOf(call[c]),
                         [Val(call[c].pending) EXCEPT !.usage.total_tokens = 0])
  /\ call' = [call EXCEPT ![c] =
                Catch(@, CacheBackendError, "cachewrite")]
  /\ UNCHANGED <<clientVars, pureVars>>

\* cache.set rejects: the await is inside the try block.
CacheSetRejects(c) ==
  /\ call[c].pc = "cacheSet"
  /\ call' = [call EXCEPT ![c] =
                Catch(@, CacheBackendError, "cachewrite")]
  /\ UNCHANGED <<clientVars, cache, pureVars>>

Next ==
  \E c \in SeqCalls :
    \/ Call(c)
    \/ CacheGetResolves(c)
    \/ CacheGetRejects(c)
    \/ VendorReplies(c)
    \/ VendorRejects(c)
    \/ CacheSetResolves(c)
    \/ CacheSetRejects(c)
    \/ Settle(c)

\* The gateway specification: one caller that awaits each call before making
\* the next, every request, every reply.
Spec == Init /\ [][Next]_vars

\* The requests of the fair specification: the structured request under two
\* request ids, and the same with an image attached.
LiveRequests ==
  ConcRequests
    \cup { [Base EXCEPT !.image = Some([buffer |-> "png1",
                                        description |-> None])] }

\* The caller of the fair specification makes any of them with any budget.
LiveCall(c) ==
  \E options \in LiveRequests, n \in 0..MaxRetries : Start(c, options, n)

NextLive ==
  \E c \in SeqCalls :
    \/ LiveCall(c)
    \/ CacheGetResolves(c)
    \/ CacheGetRejects(c)
    \/ VendorReplies(c)
    \/ VendorRejects(c)
    \/ CacheSetResolves(c)
    \/ CacheSetRejects(c)
    \/ Settle(c)

\* Every awaited promise settles: a pending cache.get, chat.completions.create
\* or cache.set eventually resolves or rejects.
EventuallyResolves ==
  \A c \in SeqCalls :
    /\ WF_vars(CacheGetResolves(c) \/ CacheGetRejects(c))
    /\ WF_vars(VendorReplies(c) \/ VendorRejects(c))
    /\ WF_vars(CacheSetResolves(c) \/ CacheSetRejects(c))

\* The fair specification: one caller that awaits each call, and every
\* awaited promise settling.
SpecLive == Init /\ [][NextLive]_vars /\ EventuallyResolves

\* The constructor with enableCaching = true as the parameter's default.
ConstructedEnableCaching_DefaultsToTrue(arg) ==
  IF IsSome(arg) THEN Val(arg) ELSE TRUE

\* constructor({enableCaching = false, ...}): this.enableCaching is the
\* argument, or false when none is given.
ConstructedEnableCaching(arg) ==
  IF IsSome(arg) THEN Val(arg) ELSE FALSE

\* A cache that already holds an entry for the structured request.
PreloadedCache ==
  CacheStore(EmptyCache, cacheOptions(ClientModel, Base),
             [data |-> JSONParse(<<"{", "a", "b", "}">>).value,
              usage |-> BuildResponse(ClientModel,
                          Reply(Some(<<"{", "a", "b", "}">>), None,
                                Some(FullUsage))).usage])

\* The caches a client can be constructed with: none, an empty one, one
\* that holds an entry.
CacheArgs == {None, Some(EmptyCache), Some(PreloadedCache)}

\* The client after new OpenRouterClient({enableCaching, cache, ...}), with
\* either argument given or not.
InitConstructed ==
  /\ variant \in Variants
  /\ enableCachingArg \in {None, Some(TRUE), Some(FALSE)}
  /\ enableCaching = ConstructedEnableCaching(enableCachingArg)
  /\ \E cacheArg \in CacheArgs :
       /\ hasCache = IsSome(cacheArg)
       /\ cache = IF IsSome(cacheArg) THEN Val(cacheArg) ELSE EmptyCache
  /\ call = [c \in Calls |-> IdleCall]
  /\ keyIn = <<>>
  /\ keyObj = <<>>
  /\ keyGot = None
  /\ fmtIn = None
  /\ fmtOut = None
  /\ exIn = None
  /\ exOut = None
  /\ task = IdleTask

\* The constructed specification: one caller on a client constructed in any
\* of these ways.
SpecConstructed == InitConstructed /\ [][NextLive]_vars

\* The shapes a vendor reply can take: content absent, empty or a text;
\* tool_calls absent, empty or one call; finish_reason absent, empty or
\* given; usage absent, with a counter missing and one zero, or complete.
ResponseReplies ==
  { [Reply(content, toolCalls, usage) EXCEPT !.finish_reason = reason] :
      content \in {None, Some(<<>>), Some(<<"w">>), Some(<<"{", "a", "}">>)},
      toolCalls \in {None, Some(<<>>), Some(<<ToolCall(<<"{", "a", "}">>)>>)},
      reason \in {None, Some(""), Some("length")},
      usage \in {None,
                 Some([prompt_tokens |-> Some(3), completion_tokens |-> None,
                       total_tokens |-> Some(0)]),
                 Some(FullUsage)} }

\* The requests of the response specification: the structured request and
\* the same conversation without a response_model.
ResponseRequests == { Base, [Base EXCEPT !.response_model = None] }

\* The caller of the response specification makes either with no retries.
ResponseCall(c) == \E options \in ResponseRequests : Start(c, options, 0)

ResponseVendorReplies(c) == \E r \in ResponseReplies : Resolve(c, r)

NextResponse ==
  \E c \in SeqCalls :
    \/ ResponseCall(c)
    \/ CacheGetResolves(c)
    \/ CacheGetRejects(c)
    \/ ResponseVendorReplies(c)
    \/ VendorRejects(c)
    \/ CacheSetResolves(c)
    \/ CacheSetRejects(c)
    \/ Settle(c)

\* The response specification: one caller, every shape of vendor reply.
SpecResponse == Init /\ [][NextResponse]_vars

NextConc ==
  \E c \in Calls :
    \/ ConcCall(c)
    \/ CacheGetResolves(c)
    \/ CacheGetRejects(c)
    \/ ConcVendorReplies(c)
    \/ VendorRejects(c)
    \/ CacheSetResolves(c)
    \/ CacheSetRejects(c)

\* The concurrent specification: two calls in flight at once, on requests
\* with one fingerprint.
SpecConc == Init /\ [][NextConc]_vars

-----------------------------------------------------------------------------
(* The key specification: cacheOptions on every pair of requests.  A writer *)
(* call stores its entry under the key object it builds, a reader call      *)
(* looks its own key object up.                                             *)

KeySides == {"writer", "reader"}

KeyInput(modelName, options, retries) ==
  [modelName |-> modelName, options |-> options, retries |-> retries]

InitKey ==
  /\ variant = "instructions"
  /\ enableCaching = TRUE
  /\ enableCachingArg = Some(TRUE)
  /\ hasCache = TRUE
  /\ cache = EmptyCache
  /\ call = [c \in Calls |-> IdleCall]
  /\ \E wo \in {Base} \cup Variations, ro \in KeyRequests,
        rm \in ModelNames, rn \in {0, MaxRetries} :
       keyIn = [writer |-> KeyInput(ClientModel, wo, 0),
                reader |-> KeyInput(rm, ro, rn)]
  /\ keyObj = [side \in KeySides |-> None]
  /\ keyGot = None
  /\ fmtIn = None
  /\ fmtOut = None
  /\ exIn = None
  /\ exOut = None
  /\ task = IdleTask

\* The writer builds cacheOptions and cache.set stores its entry under it.
KeyWrite ==
  /\ keyObj["writer"] = None
  /\ LET in == keyIn["writer"]
         key == cacheOptions(in.modelName, in.options)
     IN /\ keyObj' = [keyObj EXCEPT !["writer"] = Some(key)]
        /\ cache' = CacheStore(cache, key, [data |-> "of writer"])
  /\ UNCHANGED <<clientVars, call, keyIn, keyGot, fmtVars, exVars, evalVars>>

\* The reader builds cacheOptions and cache.get looks it up.
KeyRead ==
  /\ keyObj["reader"] = None
  /\ LET in == keyIn["reader"]
         key == cacheOptions(in.modelName, in.options)
     IN /\ keyObj' = [keyObj EXCEPT !["reader"] = Some(key)]
        /\ keyGot' = Some(CacheLookup(cache, key))
  /\ UNCHANGED <<clientVars, call, keyIn, cache, fmtVars, exVars, evalVars>>

NextKey == KeyWrite \/ KeyRead

SpecKey == InitKey /\ [][NextKey]_vars

-----------------------------------------------------------------------------
(* The request specification: the vendor request built from every            *)
(* combination of conversation, image, tools, tool_choice, response_model    *)
(* and temperature, by either copy.                                          *)

\* Longest conversation of the request specification.
MaxMessages == 2

Tool2 ==
  [name |-> "type", description |-> "type a text",
   parameters |-> [properties |-> {"selector", "text"},
                   required |-> <<"text", "selector">>]]

Roles == {"system", "user", "assistant"}

\* Message contents: a string, a list that interleaves image and text parts
\* (its first image is the attachment png1, already embedded), and a list
\* with one image alone.
FormatContents ==
  { TextContent("ask"),
    PartsContent(<<ImagePart(DataUrl("png1")), TextPart("ask"),
                   ImagePart("u1"), TextPart("more")>>),
    PartsContent(<<ImagePart("u1")>>) }

FormatMessages == [role : Roles, content : FormatContents]

FormatConversations == UNION {[1..n -> FormatMessages] : n \in 1..MaxMessages}

FormatRequests ==
  { [Base EXCEPT !.messages = ms, !.image = im, !.tools = ts,
                 !.tool_choice = tc, !.response_model = rm,
                 !.temperature = tp] :
      ms \in FormatConversations,
      im \in {None, Some([buffer |-> "png1", description |-> None]),
              Some([buffer |-> "png1", description |-> Some("look")])},
      ts \in {None, Some(<<>>), Some(<<Tool1, Tool2>>)},
      tc \in {None, Some("required")},
      rm \in {None, Some([schema |-> "objA", name |-> "Extraction"]),
              Some([schema |-> "objA_optional", name |-> "Extraction"])},
      tp \in {None, Some(0)} }

InitFormat ==
  /\ variant \in Variants
  /\ enableCaching = FALSE
  /\ enableCachingArg = Some(FALSE)
  /\ hasCache = FALSE
  /\ cache = EmptyCache
  /\ call = [c \in Calls |-> IdleCall]
  /\ keyIn = <<>>
  /\ keyObj = <<>>
  /\ keyGot = None
  /\ fmtIn \in {Some(o) : o \in FormatRequests}
  /\ fmtOut = None
  /\ exIn = None
  /\ exOut = None
  /\ task = IdleTask

\* createChatCompletion from its first line to the call of
\* chat.completions.create, caching disabled.
Format ==
  /\ fmtOut = None
  /\ fmtOut' = Some(BuildRequest(variant, ClientModel, Val(fmtIn)))
  /\ UNCHANGED <<clientVars, cache, call, keyVars, fmtIn, exVars, evalVars>>

NextFormat == Format

SpecFormat == InitFormat /\ [][NextFormat]_vars

-----------------------------------------------------------------------------
(* The extraction specification: the response_model block of either copy on  *)
(* every short reply text and on the longer texts of Replies.                *)

\* Longest reply text that is enumerated token by token.
MaxTextLen == 3

ShortTexts == UNION {[1..n -> Tokens] : n \in 0..MaxTextLen}

LongTexts ==
  { <<"w", "fence", "json", "{", "a", "}", "fence">>,
    <<"w", "w", "fence", "{", "a", "b", "}", "fence">>,
    <<"w", "fence", "json", "{", "b", "}", "fence">>,
    <<"w", "{", "a", "}", "w", "{", "b", "}">>,
    <<"{", "a", "}", "w", "}">>,
    <<"w", "{", "{", "a", "}">> }

\* Prose followed by a fenced JSON object, with and without the json tag.
FencedTexts ==
  { prose \o <<"fence">> \o tag \o <<"{">> \o members \o <<"}", "fence">> :
      prose \in {<<"w">>, <<"w", "w">>},
      tag \in {<<>>, <<"json">>},
      members \in UNION {[1..n -> Members] : n \in 0..2} }

ToolCallLists ==
  { None, Some(<<>>),
    Some(<<ToolCall(<<"{", "a", "}">>)>>),
    Some(<<ToolCall(<<"{", "b", "}">>), ToolCall(<<"{", "a", "}">>)>>),
    Some(<<ToolCall(<<"w", "fence", "{", "a", "}", "fence">>)>>) }

ExtractReplies ==
  { Reply(Some(t), None, Some(FullUsage)) :
      t \in ShortTexts \cup LongTexts \cup FencedTexts }
    \cup { Reply(c, tcs, Some(FullUsage)) :
             c \in {None, Some(<<>>), Some(<<"w">>), Some(<<"{", "b", "}">>)},
             tcs \in ToolCallLists }

InitExtract ==
  /\ variant \in Variants
  /\ enableCaching = FALSE
  /\ enableCachingArg = Some(FALSE)
  /\ hasCache = FALSE
  /\ cache = EmptyCache
  /\ call = [c \in Calls |-> IdleCall]
  /\ keyIn = <<>>
  /\ keyObj = <<>>
  /\ keyGot = None
  /\ fmtIn = None
  /\ fmtOut = None
  /\ exIn \in {Some([reply |-> r, schema |-> sch, retries |-> n]) :
                 r \in ExtractReplies, sch \in Schemas, n \in {0, MaxRetries}}
  /\ exOut = None
  /\ task = IdleTask

\* The response_model block runs on the canonical response of the reply.
RunExtract ==
  /\ exOut = None
  /\ LET in == Val(exIn)
     IN exOut' = Some(Extract(variant, BuildResponse(ClientModel, in.reply),
                              in.schema, in.retries))
  /\ UNCHANGED <<clientVars, cache, call, keyVars, fmtVars, exIn, evalVars>>

NextExtract == RunExtract

SpecExtract == InitExtract /\ [][NextExtract]_vars

-----------------------------------------------------------------------------
(* The evaluation specification: one run of the runner's task callback on    *)
(* the task zquery_extract_multiple.  Every awaited call on a wrapper        *)
(* resolves or rejects.                                                      *)

MaxItems == 3

\* The items extractFromMultiple can resolve with: a title, the placeholder
\* title or none, and the item's own success flag.
ItemTitles == {None, Some("story"), Some("title not found")}
Items == [title : ItemTitles, success : BOOLEAN]
ExtractResults == UNION {[1..n -> Items] : n \in 0..MaxItems}

IsSuccessfulItem(item) == item.success

\* The object zquery_extract_multiple returns after close().
TaskSuccess(items) ==
  [_success |-> /\ Len(items) >= 2
                /\ \E i \in 1..Len(items) :
                     /\ IsSome(items[i].title)
                     /\ Val(items[i].title) # "title not found",
   extractedItems |-> Len(items),
   successfulExtractions |-> Len(SelectSeq(items, IsSuccessfulItem)),
   results |-> items]

\* The object the catch block of zquery_extract_multiple returns.
TaskFailure(message) == [_success |-> FALSE, error |-> message]

\* The object the catch block of the runner's task callback returns.
RunnerFailure(message) == [_success |-> FALSE, error |-> message]

\* catch (error) of zquery_extract_multiple: the task function returns, the
\* runner logs the result and enters its finally block.
TaskCatch(t, message) ==
  [t EXCEPT !.pc = "runnerClose", !.threw = TRUE,
            !.taskResult = Some(TaskFailure(message))]

\* catch (error) of the runner's task callback.
RunnerCatch(t, message) ==
  [t EXCEPT !.pc = "returned", !.threw = TRUE,
            !.result = Some(RunnerFailure(message))]

\* The runner has created its wrapper and awaits init().
InitEval ==
  /\ variant \in Variants
  /\ enableCaching = FALSE
  /\ enableCachingArg = Some(FALSE)
  /\ hasCache = FALSE
  /\ cache = EmptyCache
  /\ call = [c \in Calls |-> IdleCall]
  /\ keyIn = <<>>
  /\ keyObj = <<>>
  /\ keyGot = None
  /\ fmtIn = None
  /\ fmtOut = None
  /\ exIn = None
  /\ exOut = None
  /\ task = [IdleTask EXCEPT !.pc = "runnerInit"]

\* The runner's init() resolves: taskFunction(taskInput) starts, creates its
\* own wrapper and awaits its init().
RunnerInitResolves ==
  /\ task.pc = "runnerInit"
  /\ task' = [task EXCEPT !.runner = "open", !.pc = "ownInit"]
  /\ UNCHANGED <<clientVars, cache, call, keyVars, fmtVars, exVars>>

RunnerInitRejects ==
  /\ task.pc = "runnerInit"
  /\ task' = RunnerCatch(task, "init failed")
  /\ UNCHANGED <<clientVars, cache, call, keyVars, fmtVars, exVars>>

OwnInitResolves ==
  /\ task.pc = "ownInit"
  /\ task' = [task EXCEPT !.own = "open", !.pc = "extract"]
  /\ UNCHANGED <<clientVars, cache, call, keyVars, fmtVars, exVars>>

OwnInitRejects ==
  /\ task.pc = "ownInit"
  /\ task' = TaskCatch(task, "init failed")
  /\ UNCHANGED <<clientVars, cache, call, keyVars, fmtVars, exVars>>

\* extractFromMultiple resolves: the task awaits close() on its wrapper.
ExtractResolves ==
  /\ task.pc = "extract"
  /\ \E items \in ExtractResults :
       task' = [task EXCEPT !.extracted = Some(items), !.pc = "ownClose"]
  /\ UNCHANGED <<clientVars, cache, call, keyVars, fmtVars, exVars>>

\* extractFromMultiple rejects: the catch block returns at once.
ExtractRejects ==
  /\ task.pc = "extract"
  /\ task' = TaskCatch(task, "extraction failed")
  /\ UNCHANGED <<clientVars, cache, call, keyVars, fmtVars, exVars>>

\* The task's close() resolves: the result is computed and returned.
OwnCloseResolves ==
  /\ task.pc = "ownClose"
  /\ task' = [task EXCEPT !.own = "closed", !.pc = "runnerClose",
                          !.taskResult = Some(TaskSuccess(Val(task.extracted)))]
  /\ UNCHANGED <<clientVars, cache, call, keyVars, fmtVars, exVars>>

OwnCloseRejects ==
  /\ task.pc = "ownClose"
  /\ task' = TaskCatch([task EXCEPT !.own = "closed"], "close failed")
  /\ UNCHANGED <<clientVars, cache, call, keyVars, fmtVars, exVars>>

\* finally { await zqueryStagehand.close() } resolves: return result.
RunnerCloseResolves ==
  /\ task.pc = "runnerClose"
  /\ task' = [task EXCEPT !.runner = "closed", !.pc = "returned",
                          !.result = task.taskResult]
  /\ UNCHANGED <<clientVars, cache, call, keyVars, fmtVars, exVars>>

\* The close() of the finally block rejects: the outer catch returns.
RunnerCloseRejects ==
  /\ task.pc = "runnerClose"
  /\ task' = RunnerCatch([task EXCEPT !.runner = "closed"], "close failed")
  /\ UNCHANGED <<clientVars, cache, call, keyVars, fmtVars, exVars>>

NextEval ==
  \/ RunnerInitResolves
  \/ RunnerInitRejects
  \/ OwnInitResolves
  \/ OwnInitRejects
  \/ ExtractResolves
  \/ ExtractRejects
  \/ OwnCloseResolves
  \/ OwnCloseRejects
  \/ RunnerCloseResolves
  \/ RunnerCloseRejects

SpecEval == InitEval /\ [][NextEval]_vars

-----------------------------------------------------------------------------

(* Properties *)

HasModel(s) == IsSome(s.options.response_model)

\* The failures the retry policy calls recoverable.
Recoverable == {"request", "missing", "nojson", "malformed", "schema"}

\* C1: with caching enabled, an attempt whose cache lookup returned an entry
\* returns exactly that entry (the one stored under the request's key), and
\* in that attempt there is no vendor request, no extraction stage, no
\* validation and no retry; a call that hits on its first attempt issues no
\* vendor request at all.
C1_CacheHitReturnsEntry ==
  \A c \in Calls :
    IsSome(call[c].hit) =>
      /\ enableCaching
      /\ call[c].pc = "done"
      /\ call[c].result = call[c].hit
      /\ call[c].result = CacheLookup(cache, KeyOf(call[c]))
      /\ call[c].attemptReqs = 0
      /\ call[c].stages = {}
      /\ call[c].validated = None
      /\ call[c].reply = None
      /\ (call[c].retries = call[c].retries0 => call[c].vendorReqs = 0)

C1_Witness ==
  \E c \in Calls :
    /\ IsSome(call[c].hit)
    /\ HasModel(call[c])
    /\ call[c].pc = "done"
    /\ call[c].vendorReqs = 0

\* C2: a call that ends in failure after attempts that all failed with a
\* recoverable failure has issued exactly retries + 1 vendor requests, and
\* a call in progress has issued at most one request per attempt begun.
C2_ExhaustedBudgetRequests ==
  \A c \in Calls :
    /\ (call[c].pc = "failed" /\ call[c].fails \subseteq Recoverable)
         => /\ call[c].vendorReqs = call[c].retries0 + 1
            /\ call[c].retries = 0
    /\ call[c].vendorReqs <= call[c].retries0 - call[c].retries + 1

C2_Witness ==
  \E c \in Calls :
    /\ call[c].pc = "failed"
    /\ ~enableCaching
    /\ call[c].retries0 = 2
    /\ call[c].fails = {"malformed"}
    /\ call[c].vendorReqs = 3

\* C3: when the budget is exhausted by a recoverable failure, the error the
\* caller receives is the error that the last attempt raised, unchanged: the
\* missing-content, no-JSON, malformed-JSON or schema-validation error
\* itself, and a completion-request error for a vendor failure.
C3_TerminalErrorVerbatim ==
  \A c \in Calls :
    (call[c].pc = "failed" /\ Val(call[c].lastFail) \in Recoverable)
      => IF Val(call[c].lastFail) = "request"
           THEN Val(call[c].error).class = "CreateChatCompletionResponseError"
           ELSE call[c].error = call[c].raised

\* Every text a reply carries: its content and its tool calls' arguments.
ReplyTexts(r) ==
  (IF IsSome(r.content) THEN {Val(r.content)} ELSE {})
    \cup (IF IsSome(r.tool_calls)
            THEN {Val(r.tool_calls)[i].arguments :
                    i \in 1..Len(Val(r.tool_calls))}
            ELSE {})

Spans(t) == {SubSeq(t, i, j) : i \in 1..Len(t), j \in 1..Len(t)}

\* The values that some span of a reply's texts (fence markers dropped or
\* not) parses to; null content parses to null.
ParsedFrom(r) ==
  {JSONParse(sp).value :
     sp \in {x \in UNION {Spans(t) \cup Spans(StripFences(t)) :
                            t \in ReplyTexts(r)} : JSONParse(x).ok}}
    \cup (IF IsSome(r.content) /\ Val(r.content) # <<>>
            THEN {} ELSE {JSONParse(<<"null">>).value})

\* C4: a structured result that did not come from the cache was parsed from
\* the vendor reply of the returning attempt and passed schema validation in
\* that attempt.
C4_ReturnedDataValidated ==
  \A c \in Calls :
    (call[c].pc = "done" /\ HasModel(call[c]) /\ call[c].hit = None) =>
      /\ IsSome(call[c].reply)
      /\ call[c].attemptReqs = 1
      /\ Val(call[c].result).data \in ParsedFrom(Val(call[c].reply))
      /\ validateZodSchema(Val(call[c].options.response_model).schema,
                           Val(call[c].result).data)
      /\ call[c].validated = Some(Val(call[c].result).data)
      /\ "validate" \in call[c].stages

C4_Witness ==
  \E c \in Calls :
    /\ call[c].pc = "done"
    /\ HasModel(call[c])
    /\ call[c].hit = None
    /\ call[c].retries < call[c].retries0
    /\ "schema" \in call[c].fails
    /\ Val(call[c].result).data.keys = {"a", "b"}

KeyFields ==
  {"model", "messages", "temperature", "top_p", "frequency_penalty",
   "presence_penalty", "image", "response_model", "tools", "tool_choice",
   "maxTokens"}

BothKeysBuilt == keyGot # None /\ IsSome(keyObj["writer"])

\* The two calls of the key specification are made on one client model with
\* options that agree in every field but requestId.
SameButRequestId ==
  /\ keyIn["writer"].modelName = keyIn["reader"].modelName
  /\ [keyIn["writer"].options EXCEPT !.requestId = ""]
       = [keyIn["reader"].options EXCEPT !.requestId = ""]

\* C5: requests that differ only in requestId or in retries get the same key
\* object, and a key object has exactly the eleven fields model, messages,
\* temperature, top_p, frequency_penalty, presence_penalty, image,
\* response_model, tools, tool_choice and maxTokens.
C5_KeyIgnoresRequestIdAndRetries ==
  /\ \A side \in DOMAIN keyObj :
       IsSome(keyObj[side]) => DOMAIN Val(keyObj[side]) = KeyFields
  /\ (BothKeysBuilt /\ SameButRequestId)
       => keyObj["writer"] = keyObj["reader"]

C5_Witness ==
  /\ BothKeysBuilt
  /\ SameButRequestId
  /\ keyIn["writer"].options.requestId # keyIn["reader"].options.requestId
  /\ keyIn["writer"].retries # keyIn["reader"].retries
  /\ keyObj["writer"] = keyObj["reader"]

\* C6: requests that differ in the model or in any field other than
\* requestId get different key objects, and the reader's lookup never returns
\* the entry the writer stored.
C6_KeySensitive ==
  (BothKeysBuilt /\ ~SameButRequestId)
    => /\ keyObj["writer"] # keyObj["reader"]
       /\ keyGot = Some(None)

C6_Witness ==
  /\ BothKeysBuilt
  /\ cache # EmptyCache
  /\ keyIn["writer"].options.tools # keyIn["reader"].options.tools
  /\ keyIn["writer"].modelName = keyIn["reader"].modelName
  /\ keyGot = Some(None)

\* C7: with caching enabled, a call that returns from an attempt that missed
\* the cache has written the cache exactly once, and the entry under its key
\* is the value it returns.
C7_ResultCachedBeforeReturn ==
  \A c \in Calls :
    (call[c].pc = "done" /\ enableCaching /\ call[c].hit = None) =>
      /\ call[c].writes = 1
      /\ CacheLookup(cache, KeyOf(call[c])) = call[c].result

C7_Witness ==
  \E c \in Calls :
    /\ call[c].pc = "done"
    /\ enableCaching
    /\ call[c].hit = None
    /\ ~HasModel(call[c])
    /\ call[c].writes = 1

\* C8: a failure of the cache lookup is never what a call fails with.
C8_CacheLookupFailureIsMiss ==
  \A c \in Calls :
    call[c].pc = "failed" => call[c].lastFail # Some("cacheread")

\* C9: a call whose cache write failed still returns its result: it neither
\* fails nor starts another attempt.
C9_CacheWriteFailureStillReturns ==
  \A c \in Calls :
    "cachewrite" \in call[c].fails => call[c].pc = "done"

SameFingerprintCalls(c, d) ==
  /\ c # d
  /\ enableCaching
  /\ call[c].pc = "done"
  /\ call[d].pc = "done"
  /\ [call[c].options EXCEPT !.requestId = ""]
       = [call[d].options EXCEPT !.requestId = ""]

\* C10 as claimed: two successful calls on requests identical but for
\* requestId return identical outputs, however they interleave.
C10_IdenticalOutputsAnyInterleaving ==
  \A c, d \in Calls :
    SameFingerprintCalls(c, d) => call[c].result = call[d].result

\* C10 as amended: they return identical outputs when one of them is served
\* from the cache entry that the other wrote.
C10_IdenticalOutputsWhenServedFromCache ==
  \A c, d \in Calls :
    (SameFingerprintCalls(c, d) /\ call[c].hit = None /\ IsSome(call[d].hit))
      => call[c].result = call[d].result

C10_Witness ==
  \E c, d \in Calls :
    /\ SameFingerprintCalls(c, d)
    /\ call[c].hit = None
    /\ IsSome(call[d].hit)
    /\ call[c].options.requestId # call[d].options.requestId
    /\ call[d].retries < call[d].retries0

\* A canonical response whose message has neither content nor a tool call.
EmptyMessage(response) ==
  /\ response.choices[1].message.content = None
  /\ Len(response.choices[1].message.tool_calls) = 0

\* C11: no canonical response that a call returns, is about to write to the
\* cache or has written to the cache has null content together with an empty
\* tool_calls list; a vendor reply with neither content nor tool calls makes
\* the call fail, with or without response_model.
C11_NullContentOnlyWithToolCalls ==
  /\ \A c \in Calls :
       ~HasModel(call[c]) =>
         /\ call[c].pc = "done" => ~EmptyMessage(Val(call[c].result))
         /\ call[c].pc = "cacheSet" => ~EmptyMessage(Val(call[c].pending))
  /\ \A k \in DOMAIN cache :
       ~IsSome(k.response_model) => ~EmptyMessage(cache[k])
  /\ \A c \in Calls :
       (IsSome(call[c].reply)
          /\ EmptyMessage(BuildResponse(ClientModel, Val(call[c].reply))))
         => call[c].pc = "failed"


\* The message of the canonical response that the extraction specification
\* hands to the response_model block, and whether the block has run.
ExMessage == BuildResponse(ClientModel, Val(exIn).reply).choices[1].message

Extracted == exOut # None

\* The values that a span of the text t, or of t without its fence markers,
\* parses to.
DecodedFrom(t) ==
  {JSONParse(sp).value :
     sp \in {x \in Spans(t) \cup Spans(StripFences(t)) : JSONParse(x).ok}}

DecodeStages == {"parse", "strip", "match", "reparse", "validate"}

\* C12: with response_model, the text decoded is message.content when it is
\* present and otherwise the arguments of the first tool call (a value that
\* parses directly from them and satisfies the schema is the result); a reply
\* with neither fails the attempt as missing content, a recoverable failure,
\* with no parse and no validation.
C12_RawTextSelection ==
  Extracted =>
    LET message == ExMessage
        o == Val(exOut)
    IN IF IsSome(message.content)
         THEN /\ o.fail # "missing"
              /\ o.t = "ok" => o.data \in DecodedFrom(Val(message.content))
       ELSE IF Len(message.tool_calls) > 0
         THEN LET args == message.tool_calls[1].arguments
              IN /\ o.fail # "missing"
                 /\ o.t = "ok" => o.data \in DecodedFrom(args)
                 /\ (JSONParse(args).ok
                       /\ validateZodSchema(Val(exIn).schema,
                                            JSONParse(args).value))
                      => o.t = "ok" /\ o.data = JSONParse(args).value
       ELSE /\ o.fail = "missing"
            /\ o.t = IF Val(exIn).retries > 0 THEN "retry" ELSE "throw"
            /\ o.stages \cap DecodeStages = {}


\* The raw text of a message: its content, or the arguments of its first
\* tool call when the content is null.
SelectedText(message) ==
  IF IsSome(message.content) THEN message.content
  ELSE IF Len(message.tool_calls) > 0
    THEN Some(message.tool_calls[1].arguments)
  ELSE None

FallbackStages == {"strip", "match", "reparse"}

\* C13: fence stripping and the brace search run only in the instruction-based
\* copy and only after the direct parse of the selected raw text has failed;
\* when that text parses directly, the instruction-based copy runs selection,
\* one parse and validation, and the value validated (returned when it
\* satisfies the schema) is the result of that parse.
C13_DirectParseSkipsFallback ==
  Extracted =>
    LET raw == SelectedText(ExMessage)
        o == Val(exOut)
    IN /\ (o.stages \cap FallbackStages # {})
            => /\ variant = "instructions"
               /\ IsSome(raw)
               /\ ~JSONParse(Val(raw)).ok
       /\ (variant = "instructions" /\ IsSome(raw) /\ JSONParse(Val(raw)).ok)
            => /\ o.stages = {"select", "parse", "validate"}
               /\ IF validateZodSchema(Val(exIn).schema, JSONParse(Val(raw)).value)
                    THEN o.t = "ok" /\ o.data = JSONParse(Val(raw)).value
                    ELSE o.t # "ok" /\ o.fail = "schema"

\* The tool-call fallback: null content, one tool call with arguments {"a":1},
\* decoded by the direct parse alone.
C13_Witness ==
  /\ Extracted
  /\ variant = "instructions"
  /\ ExMessage.content = None
  /\ Len(ExMessage.tool_calls) = 1
  /\ ExMessage.tool_calls[1].arguments = <<"{", "a", "}">>
  /\ Val(exOut).t = "ok"
  /\ Val(exOut).data.keys = {"a"}
  /\ Val(exOut).stages = {"select", "parse", "validate"}


IsProse(t) == Len(t) > 0 /\ \A i \in 1..Len(t) : t[i] = "w"

\* The start positions j of the JSON object of a text that is prose, a fence
\* marker with or without the json tag, the object and a closing fence
\* marker.
FencedObjectStarts(t) ==
  {j \in 3..(Len(t) - 2) :
     /\ t[Len(t)] = "fence"
     /\ t[j] = "{"
     /\ JSONParse(SubSeq(t, j, Len(t) - 1)).ok
     /\ \/ t[j - 1] = "fence" /\ IsProse(SubSeq(t, 1, j - 2))
        \/ /\ j >= 4
           /\ t[j - 1] = "json"
           /\ t[j - 2] = "fence"
           /\ IsProse(SubSeq(t, 1, j - 3))}

\* C14: in the instruction-based copy, a raw text made of prose followed by
\* a fenced JSON object is decoded within the attempt: the direct parse
\* fails, the fence markers are dropped, the brace span parses and its value
\* is the one validated; the attempt returns it when it satisfies the schema
\* and can fail only on schema validation, so decoding consumes no retry.
C14_FencedObjectDecoded ==
  (Extracted /\ variant = "instructions" /\ IsSome(SelectedText(ExMessage))) =>
    LET t == Val(SelectedText(ExMessage))
        o == Val(exOut)
    IN \A j \in FencedObjectStarts(t) :
         LET v == JSONParse(SubSeq(t, j, Len(t) - 1)).value
         IN /\ o.stages = {"select", "parse", "strip", "match", "reparse",
                           "validate"}
            /\ IF validateZodSchema(Val(exIn).schema, v)
                 THEN o.t = "ok" /\ o.data = v
                 ELSE o.t # "ok" /\ o.fail = "schema"

C14_Witness ==
  /\ Extracted
  /\ variant = "instructions"
  /\ ExMessage.content = Some(<<"w", "fence", "json", "{", "a", "}", "fence">>)
  /\ Val(exIn).retries = 0
  /\ Val(exOut).t = "ok"
  /\ Val(exOut).data = [type |-> "object", keys |-> {"a"}]
  /\ "strip" \in Val(exOut).stages


\* Opening minus closing braces of t[i..j].
Depth(t, i, j) ==
  Cardinality({k \in i..j : t[k] = "{"}) - Cardinality({k \in i..j : t[k] = "}"})

\* The balanced brace spans of t, as pairs of positions.
BalancedSpans(t) ==
  {p \in (1..Len(t)) \X (1..Len(t)) :
     /\ p[1] < p[2]
     /\ t[p[1]] = "{"
     /\ t[p[2]] = "}"
     /\ Depth(t, p[1], p[2]) = 0
     /\ \A k \in p[1]..(p[2] - 1) : Depth(t, p[1], k) > 0}

\* The first of them, as a text.
FirstBalancedSpan(t) ==
  LET p == CHOOSE q \in BalancedSpans(t) :
             \A r \in BalancedSpans(t) : q[1] <= r[1]
  IN SubSeq(t, p[1], p[2])

\* C15: in the instruction-based copy, when the raw text does not parse
\* directly, the text handed to the second parse is the first balanced brace
\* span of the fence-stripped text: its value is the one validated when it
\* parses, the attempt fails as malformed JSON when it does not, and it fails
\* as no JSON found exactly when the stripped text has no balanced span.
C15_FirstBalancedSpan ==
  (/\ Extracted
   /\ variant = "instructions"
   /\ IsSome(SelectedText(ExMessage))
   /\ ~JSONParse(Val(SelectedText(ExMessage))).ok) =>
    LET cleaned == StripFences(Val(SelectedText(ExMessage)))
        o == Val(exOut)
    IN IF BalancedSpans(cleaned) = {}
         THEN o.t # "ok" /\ o.fail = "nojson"
       ELSE LET parsed == JSONParse(FirstBalancedSpan(cleaned))
            IN IF ~parsed.ok
                 THEN o.t # "ok" /\ o.fail = "malformed"
               ELSE IF validateZodSchema(Val(exIn).schema, parsed.value)
                 THEN o.t = "ok" /\ o.data = parsed.value
               ELSE o.t # "ok" /\ o.fail = "schema"


\* The vendor request carries the schema-instruction message of the schema.
CarriesInstruction(request, schema) ==
  \E i \in 1..Len(request.messages) :
    request.messages[i] = SchemaInstruction(variant, schema)

\* C16: when the vendor has rejected a request of a call with response_model
\* that asked for the native response_format, the next vendor request of the
\* call carries the schema-instruction message and no response_format.
C16_FallbackAfterVendorRejection ==
  [][\A c \in Calls :
       (/\ HasModel(call[c])
        /\ IsSome(call[c].request)
        /\ IsSome(Val(call[c].request).response_format)
        /\ call'[c].vendorReqs = call[c].vendorReqs + 1
        /\ call'[c].lastFail = Some("request"))
         => /\ ~IsSome(Val(call'[c].request).response_format)
            /\ CarriesInstruction(Val(call'[c].request),
                                  Val(call[c].options.response_model).schema)]_vars


\* The request specification has built the vendor request.
Formatted == fmtOut # None

\* C17: the vendor request has a tool_choice exactly when at least one tool
\* is supplied, and then it is the caller's tool_choice or, without one,
\* "auto"; its tools list is present exactly when the caller's is, and holds
\* one function entry per tool, in order, with the tool's name, description,
\* properties and required list.
C17_ToolsAndToolChoice ==
  Formatted =>
    LET options == Val(fmtIn)
        request == Val(fmtOut)
        supplied == IF IsSome(options.tools) THEN Val(options.tools) ELSE <<>>
    IN /\ IsSome(request.tool_choice) <=> Len(supplied) > 0
       /\ IsSome(request.tool_choice) =>
            Val(request.tool_choice) =
              IF IsSome(options.tool_choice)
                THEN Val(options.tool_choice) ELSE "auto"
       /\ IsSome(request.tools) <=> IsSome(options.tools)
       /\ IsSome(request.tools) =>
            /\ Len(Val(request.tools)) = Len(supplied)
            /\ \A i \in 1..Len(supplied) :
                 LET entry == Val(request.tools)[i]
                 IN /\ entry.type = "function"
                    /\ entry.function.name = supplied[i].name
                    /\ entry.function.description = supplied[i].description
                    /\ entry.function.parameters.type = "object"
                    /\ entry.function.parameters.properties
                         = supplied[i].parameters.properties
                    /\ entry.function.parameters.required
                         = supplied[i].parameters.required

\* Two tools and no tool_choice from the caller: "auto" is sent.
C17_Witness ==
  /\ Formatted
  /\ Val(fmtIn).tools = Some(<<Tool1, Tool2>>)
  /\ Val(fmtIn).tool_choice = None
  /\ Val(fmtOut).tool_choice = Some("auto")
  /\ Len(Val(Val(fmtOut).tools)) = 2
  /\ Val(Val(fmtOut).tools)[2].function.name = "type"

\* A vendor content part is the caller's part: same kind, same text or url.
SamePart(part, sent) ==
  IF part.type = "image_url"
    THEN sent.type = "image_url" /\ sent.image_url.url = part.url
    ELSE sent.type = "text" /\ sent.text = part.text

\* C18: a message whose content is a list of parts is sent at its position
\* under its role, with its parts in their order: all of them for role user,
\* the text parts alone for role system and role assistant.
C18_PartsKeptByRole ==
  Formatted =>
    LET options == Val(fmtIn)
        request == Val(fmtOut)
    IN /\ Len(request.messages) >= Len(options.messages)
       /\ \A i \in 1..Len(options.messages) :
            LET message == options.messages[i]
                sent == request.messages[i]
                kept == IF message.role = "user"
                          THEN message.content.parts
                          ELSE SelectSeq(message.content.parts, IsTextPart)
            IN message.content.kind = "parts" =>
                 /\ sent.role = message.role
                 /\ sent.content.kind = "parts"
                 /\ Len(sent.content.parts) = Len(kept)
                 /\ \A k \in 1..Len(kept) : SamePart(kept[k], sent.content.parts[k])

\* An assistant message in second position with two images among its four
\* parts is sent with its two text parts, and the user message before it
\* with all four.
C18_Witness ==
  /\ Formatted
  /\ Len(Val(fmtIn).messages) = 2
  /\ Val(fmtIn).messages[1].role = "user"
  /\ Len(Val(fmtIn).messages[1].content.parts) = 4
  /\ Len(Val(fmtOut).messages[1].content.parts) = 4
  /\ Val(fmtIn).messages[2].role = "assistant"
  /\ Len(Val(fmtIn).messages[2].content.parts) = 4
  /\ Val(fmtOut).messages[2].content.parts
       = <<[type |-> "text", text |-> "ask"], [type |-> "text", text |-> "more"]>>

\* The image attachment is already a part of some conversation message.
ImageEmbedded(options) ==
  /\ IsSome(options.image)
  /\ \E i \in 1..Len(options.messages) :
       /\ options.messages[i].content.kind = "parts"
       /\ \E k \in 1..Len(options.messages[i].content.parts) :
            /\ options.messages[i].content.parts[k].type = "image_url"
            /\ options.messages[i].content.parts[k].url
                 = DataUrl(Val(options.image).buffer)

\* The positions after the conversation of the messages that carry parts.
AppendedPartsMessages(options, request) ==
  {i \in (Len(options.messages) + 1)..Len(request.messages) :
     request.messages[i].content.kind = "parts"}

\* C19: an image attachment that is not already embedded in the conversation
\* is appended as exactly one user message, its description (or the default
\* prompt) followed by the image; when it is already embedded, or no image is
\* supplied, nothing is appended for it.
C19_ImageAppendedUnlessEmbedded ==
  Formatted =>
    LET options == Val(fmtIn)
        request == Val(fmtOut)
        appended == AppendedPartsMessages(options, request)
    IN IF IsSome(options.image) /\ ~ImageEmbedded(options)
         THEN /\ appended = {Len(options.messages) + 1}
              /\ request.messages[Len(options.messages) + 1]
                   = [role |-> "user",
                      content |-> PartsContent(
                        << [type |-> "text",
                            text |-> IF IsSome(Val(options.image).description)
                                       THEN Val(Val(options.image).description)
                                       ELSE DefaultImagePrompt],
                           [type |-> "image_url",
                            image_url |->
                              [url |-> DataUrl(Val(options.image).buffer)]] >>)]
         ELSE appended = {}


ExtractionFailures == {"missing", "nojson", "malformed", "schema"}

\* C20: a call without response_model runs no selection, no parse and no
\* validation and has none of the four structured-output failures; the value
\* it hands to the cache write and the value it returns from an attempt that
\* missed the cache are the canonical response of the vendor reply, which is
\* then the entry under its key; with caching disabled the vendor reply ends
\* the call with that return.
C20_NoExtractionWithoutModel ==
  \A c \in Calls :
    (~HasModel(call[c]) /\ call[c].pc # "idle") =>
      /\ call[c].stages = {}
      /\ call[c].validated = None
      /\ call[c].fails \cap ExtractionFailures = {}
      /\ call[c].pc = "cacheSet" =>
           call[c].pending
             = Some(BuildResponse(ClientModel, Val(call[c].reply)))
      /\ (call[c].pc = "done" /\ call[c].hit = None) =>
           /\ call[c].result
                = Some(BuildResponse(ClientModel, Val(call[c].reply)))
           /\ enableCaching =>
                CacheLookup(cache, KeyOf(call[c])) = call[c].result
      /\ (~enableCaching /\ IsSome(call[c].reply)) => call[c].pc = "done"

\* A reply of prose, which no parse would accept, is returned and cached as
\* the raw response by a call without response_model.
C20_Witness ==
  \E c \in Calls :
    /\ ~HasModel(call[c])
    /\ call[c].pc = "done"
    /\ enableCaching
    /\ call[c].hit = None
    /\ Val(call[c].reply).content = Some(<<"w">>)
    /\ Val(call[c].result).choices[1].message.content = Some(<<"w">>)
    /\ call[c].retries = call[c].retries0
    /\ CacheLookup(cache, KeyOf(call[c])) = call[c].result


\* C21: a call has at most one vendor request in flight, and exactly one
\* while it awaits chat.completions.create; an attempt issues at most one
\* request, and every request but the last belongs to an attempt that has
\* failed, so the request of an attempt is issued only after the request of
\* the attempt before it has resolved.
C21_OneRequestInFlight ==
  \A c \in Calls :
    /\ call[c].inFlight = IF call[c].pc = "vendor" THEN 1 ELSE 0
    /\ call[c].attemptReqs <= 1
    /\ call[c].vendorReqs <= call[c].failures + 1

\* The request of the third attempt is in flight; the two before it failed.
C21_Witness ==
  \E c \in Calls :
    /\ call[c].pc = "vendor"
    /\ call[c].vendorReqs = 3
    /\ call[c].inFlight = 1
    /\ call[c].failures = 2
    /\ "request" \in call[c].fails


\* The call has returned from a retry attempt.
ReturnedFromRetry(c) ==
  call[c].pc = "done" /\ call[c].retries < call[c].retries0

\* C22 as claimed: a call that returns from a retry attempt has made a
\* vendor request and run its extraction in that attempt.
C22_RetryAlwaysFresh ==
  \A c \in Calls :
    ReturnedFromRetry(c) =>
      /\ call[c].attemptReqs = 1
      /\ IsSome(call[c].reply)
      /\ call[c].hit = None

\* C22 as amended: a retry attempt runs the whole call again, cache lookup
\* included.  A call that returns from a retry attempt either made a vendor
\* request in that attempt and returns the value extracted from its reply,
\* or found in its lookup an entry that another call with the same key wrote
\* meanwhile and returns that entry with no vendor request; with caching
\* disabled it is always the former.
C22_RetryFreshUnlessCacheHit ==
  \A c \in Calls :
    ReturnedFromRetry(c) =>
      \/ /\ call[c].hit = None
         /\ call[c].attemptReqs = 1
         /\ IsSome(call[c].reply)
         /\ Val(call[c].result).data \in ParsedFrom(Val(call[c].reply))
         /\ call[c].validated = Some(Val(call[c].result).data)
      \/ /\ enableCaching
         /\ IsSome(call[c].hit)
         /\ call[c].result = call[c].hit
         /\ call[c].attemptReqs = 0
         /\ call[c].reply = None
         /\ call[c].writes = 0
         /\ \E d \in Calls \ {c} :
              /\ call[d].writes > 0
              /\ KeyOf(call[d]) = KeyOf(call[c])

\* A call whose first attempt failed schema validation is served, in its
\* retry attempt, the entry the other call wrote in between.
C22_Witness ==
  \E c \in Calls :
    /\ ReturnedFromRetry(c)
    /\ call[c].fails = {"schema"}
    /\ IsSome(call[c].hit)
    /\ call[c].vendorReqs = 1
    /\ call[c].attemptReqs = 0
    /\ \E d \in Calls \ {c} : call[d].writes = 1 /\ call[d].pc = "done"


\* C23 as claimed: an entry of the cache, once written, keeps its value.
C23_EntryNeverChanges ==
  [][\A k \in DOMAIN cache : k \in DOMAIN cache' /\ cache'[k] = cache[k]]_vars

\* C23 as amended: an entry is never removed, and its value changes only in
\* the cache write that completes a call with that key which missed the
\* cache in its returning attempt (its lookup came before the entry was
\* written); the new value is the result that call returns.
C23_EntryReplacedOnlyByEarlierMiss ==
  [][\A k \in DOMAIN cache :
       /\ k \in DOMAIN cache'
       /\ cache'[k] # cache[k] =>
            \E c \in Calls :
              /\ call[c].pc = "cacheSet"
              /\ call'[c].pc = "done"
              /\ call[c].hit = None
              /\ KeyOf(call[c]) = k
              /\ Some(cache'[k]) = call'[c].result
              /\ \E d \in Calls \ {c} :
                   call[d].writes > 0 /\ KeyOf(call[d]) = k]_vars

\* Two calls with one key both missed, both wrote, and the entry now holds
\* the second value, which differs from what the first call returned.
C23_Witness ==
  \E c, d \in Calls :
    /\ c # d
    /\ call[c].pc = "done" /\ call[d].pc = "done"
    /\ call[c].hit = None /\ call[d].hit = None
    /\ call[c].writes = 1 /\ call[d].writes = 1
    /\ KeyOf(call[c]) = KeyOf(call[d])
    /\ call[c].result # call[d].result
    /\ CacheLookup(cache, KeyOf(call[d])) = call[d].result


\* C24: with caching disabled the calls of one client share nothing.  The
\* cache stays empty and no call reads or writes it; every call has sent one
\* vendor request per failure of its own plus the one that is outstanding or
\* was answered, and has spent one unit of its own budget per retry; the
\* value it returns is the one parsed from the reply to its own last request
\* with the usage of that reply, whatever the other call does meanwhile.
C24_IndependentWithoutCache ==
  ~enableCaching =>
    /\ cache = EmptyCache
    /\ \A c \in Calls :
         call[c].pc # "idle" =>
           /\ call[c].hit = None
           /\ call[c].writes = 0
           /\ call[c].pc \in {"vendor", "done", "failed"}
           /\ call[c].vendorReqs =
                call[c].failures + (IF call[c].pc = "failed" THEN 0 ELSE 1)
           /\ call[c].retries0 - call[c].retries =
                call[c].failures - (IF call[c].pc = "failed" THEN 1 ELSE 0)
           /\ call[c].pc = "failed" => call[c].retries = 0
           /\ call[c].pc = "done" => IsSome(call[c].reply)
           /\ (call[c].pc = "done" /\ HasModel(call[c])) =>
                /\ Val(call[c].result).data \in ParsedFrom(Val(call[c].reply))
                /\ call[c].validated = Some(Val(call[c].result).data)
                /\ Val(call[c].result).usage =
                     BuildResponse(ClientModel, Val(call[c].reply)).usage
           /\ (call[c].pc = "done" /\ ~HasModel(call[c])) =>
                call[c].result =
                  Some(BuildResponse(ClientModel, Val(call[c].reply)))

\* With caching disabled, two calls with the same request and the same
\* budget in flight together end differently: one returns from its first
\* reply, the other from its second with another value.
C24_Witness ==
  /\ ~enableCaching
  /\ \E c, d \in Calls :
       /\ call[c].pc = "done" /\ call[d].pc = "done"
       /\ call[c].options = call[d].options
       /\ call[c].retries0 = call[d].retries0
       /\ call[c].vendorReqs = 1 /\ call[d].vendorReqs = 2
       /\ call[c].result # call[d].result


\* C25: only an attempt that succeeded writes the cache.  A call awaits
\* cache.set only in an attempt that made a vendor request, got its reply
\* and, with a response_model, validated the data it is about to write; a
\* call has written at most once and then returned, so a call that is still
\* looking up, waiting for the vendor or has failed has written nothing,
\* whatever its earlier attempts ended in; and every entry under a key with
\* a response_model is a {data, usage} entry whose data satisfies the schema.
C25_OnlySuccessfulAttemptsWrite ==
  /\ \A c \in Calls :
       /\ call[c].writes <= 1
       /\ call[c].writes = 1 =>
            /\ call[c].pc = "done"
            /\ call[c].hit = None
            /\ KeyOf(call[c]) \in DOMAIN cache
       /\ call[c].pc \in {"cacheGet", "vendor", "failed"} =>
            call[c].writes = 0
       /\ call[c].pc = "cacheSet" =>
            /\ call[c].writes = 0
            /\ call[c].hit = None
            /\ call[c].attemptReqs = 1
            /\ IsSome(call[c].reply)
            /\ HasModel(call[c]) =>
                 /\ call[c].validated = Some(Val(call[c].pending).data)
                 /\ Val(call[c].pending).data
                      \in ParsedFrom(Val(call[c].reply))
                 /\ validateZodSchema(Val(call[c].options.response_model).schema,
                                      Val(call[c].pending).data)
  /\ \A k \in DOMAIN cache :
       IsSome(k.response_model) =>
         /\ "data" \in DOMAIN cache[k]
         /\ validateZodSchema(Val(k.response_model).schema, cache[k].data)

\* A call whose first two attempts failed, one on the vendor request and one
\* on validation, wrote the cache once, in its third attempt.
C25_Witness ==
  \E c \in Calls :
    /\ call[c].pc = "done"
    /\ call[c].writes = 1
    /\ call[c].vendorReqs = 3
    /\ call[c].fails = {"request", "schema"}
    /\ cache[KeyOf(call[c])] = Val(call[c].result)


\* C26: when every vendor request and every cache operation resolves, a call
\* with retries = n that has started eventually returns a value or raises an
\* error, and at no point has it issued more than n + 1 vendor requests,
\* cache write failures included.
C26_TerminatesWithinBudget ==
  /\ [](\A c \in Calls : call[c].vendorReqs <= call[c].retries0 + 1)
  /\ \A c \in Calls :
       (call[c].pc \in {"cacheGet", "vendor", "cacheSet"})
         ~> (call[c].pc \in Terminal)

\* A call with the largest budget has spent it all, its last attempt failing
\* on the cache write, and has raised after one request per unit and one.
C26_Witness ==
  \E c \in Calls :
    /\ call[c].pc = "failed"
    /\ call[c].retries0 = MaxRetries
    /\ call[c].vendorReqs = MaxRetries + 1
    /\ call[c].lastFail = Some("cachewrite")


\* C27: every attempt of one call sends the same request.  In every step of
\* a call that is under way the caller's options and the budget the call
\* started with stay as they are, a request sent after an earlier one of the
\* call equals it, image message and schema instruction included once each,
\* and the remaining budget either stays or falls by exactly one, the latter
\* exactly when a failed attempt is followed by the next.
C27_SameRequestEveryAttempt ==
  [][\A c \in Calls :
       (call[c].pc # "idle" /\ call'[c].pc # "idle") =>
         /\ call'[c].options = call[c].options
         /\ call'[c].retries0 = call[c].retries0
         /\ (IsSome(call[c].request) /\ IsSome(call'[c].request)) =>
              call'[c].request = call[c].request
         /\ call'[c].vendorReqs > call[c].vendorReqs =>
              /\ Len(Val(call'[c].request).messages) =
                   Len(call[c].options.messages)
                     + (IF IsSome(call[c].options.image) THEN 1 ELSE 0)
                     + (IF /\ HasModel(call[c])
                           /\ ~IsSome(Val(call'[c].request).response_format)
                          THEN 1 ELSE 0)
         /\ call'[c].retries \in {call[c].retries, call[c].retries - 1}
         /\ call'[c].retries = call[c].retries - 1 <=>
              /\ call'[c].failures = call[c].failures + 1
              /\ call'[c].pc # "failed"]_vars

\* The third request of a call with an image, after two failed attempts, is
\* in flight with the budget spent.
C27_Witness ==
  \E c \in Calls :
    /\ call[c].pc = "vendor"
    /\ call[c].vendorReqs = 3
    /\ call[c].retries0 = 2
    /\ call[c].retries = 0
    /\ IsSome(call[c].options.image)
    /\ Len(Val(call[c].request).messages) <= Len(call[c].options.messages) + 2


\* The positions of the vendor request's messages that hold the schema
\* instruction of the request's response_model.
InstructionPositions(options, request) ==
  IF IsSome(options.response_model)
    THEN {i \in 1..Len(request.messages) :
            request.messages[i] =
              SchemaInstruction(variant, Val(options.response_model).schema)}
    ELSE {}

\* C28: the messages of the vendor request are the conversation messages,
\* one for one in their order and under their roles, then one user message
\* with the image if an image was supplied, then the schema instruction if
\* the request carries one; the instruction is a user message, occurs once
\* and is the last message.
C28_MessageOrder ==
  Formatted =>
    LET options == Val(fmtIn)
        sent == Val(fmtOut).messages
        n == Len(options.messages)
        img == IF IsSome(options.image) THEN 1 ELSE 0
        instr == InstructionPositions(options, Val(fmtOut))
    IN /\ Len(sent) = n + img + Cardinality(instr)
       /\ \A i \in 1..n :
            /\ sent[i].role = options.messages[i].role
            /\ sent[i].content.kind = options.messages[i].content.kind
            /\ sent[i].content.text = options.messages[i].content.text
       /\ img = 1 =>
            /\ sent[n + 1].role = "user"
            /\ sent[n + 1].content.kind = "parts"
            /\ \E k \in 1..Len(sent[n + 1].content.parts) :
                 /\ sent[n + 1].content.parts[k].type = "image_url"
                 /\ sent[n + 1].content.parts[k].image_url.url
                      = DataUrl(Val(options.image).buffer)
       /\ instr \subseteq {Len(sent)}
       /\ instr # {} =>
            /\ sent[Len(sent)].role = "user"
            /\ sent[Len(sent)].content.kind = "text"

\* Two conversation messages, an image and a schema instruction: four
\* messages, the image third and the instruction fourth.
C28_Witness ==
  /\ Formatted
  /\ Len(Val(fmtIn).messages) = 2
  /\ IsSome(Val(fmtIn).image)
  /\ Len(Val(fmtOut).messages) = 4
  /\ Val(fmtOut).messages[3].content.kind = "parts"
  /\ InstructionPositions(Val(fmtIn), Val(fmtOut)) = {4}


\* The message is a schema-instruction message, of either copy's wording.
IsInstruction(m) ==
  \E v \in Variants, schema \in Schemas : m = SchemaInstruction(v, schema)

\* C29: a vendor request built for a call with response_model carries either
\* the native response_format, for the call's schema under the call's name,
\* or the schema-instruction message for that schema, and not both; one
\* built for a call without response_model carries no response_format and no
\* instruction message.
C29_OneStructuredOutputMechanism ==
  Formatted =>
    LET options == Val(fmtIn)
        request == Val(fmtOut)
        instructions == {i \in 1..Len(request.messages) :
                           IsInstruction(request.messages[i])}
    IN IF IsSome(options.response_model)
         THEN /\ IsSome(request.response_format) <=> instructions = {}
              /\ instructions = InstructionPositions(options, request)
              /\ IsSome(request.response_format) =>
                   /\ Val(request.response_format).type = "json_schema"
                   /\ Val(request.response_format).json_schema.schema
                        = Val(options.response_model).schema
                   /\ Val(request.response_format).json_schema.name
                        = Val(options.response_model).name
         ELSE /\ request.response_format = None
              /\ instructions = {}

\* The native copy on a schema zodResponseFormat refuses: the instruction
\* message is sent and no response_format.
C29_Witness ==
  /\ Formatted
  /\ variant = "native"
  /\ Val(fmtIn).response_model
       = Some([schema |-> "objA_optional", name |-> "Extraction"])
  /\ Val(fmtOut).response_format = None
  /\ InstructionPositions(Val(fmtIn), Val(fmtOut)) # {}


\* The number of times a message carries the prefix of the terminal error.
PrefixCount(message) ==
  Cardinality({i \in 1..Len(message) :
                 message[i] = "OpenRouter request failed"})

\* C30: the failure of a nested attempt reaches the caller as the innermost
\* attempt raised it.  A call that has failed carries the error its last
\* attempt raised, wrapped by that attempt's catch block alone, so with the
\* prefix at most once, or unwrapped when it was raised outside the try
\* block; no enclosing attempt has run again, so the attempts of a call are
\* one more than the budget it has spent and each of its failures but a
\* terminal one has cost exactly one unit.
C30_NestedFailurePropagatesUnchanged ==
  \A c \in Calls :
    /\ call[c].pc # "idle" =>
         /\ call[c].failures =
              (call[c].retries0 - call[c].retries)
                + (IF call[c].pc = "failed" THEN 1 ELSE 0)
         /\ call[c].vendorReqs <= call[c].retries0 - call[c].retries + 1
    /\ call[c].pc = "failed" =>
         /\ PrefixCount(Val(call[c].error).message) <= 1
         /\ IF call[c].lastFail = Some("cacheread")
              THEN call[c].error = call[c].raised
              ELSE /\ call[c].retries = 0
                   /\ PrefixCount(Val(call[c].raised).message) = 0
                   /\ call[c].error =
                        Some(CreateChatCompletionResponseError(
                               <<"OpenRouter request failed">>
                                 \o Val(call[c].raised).message))

\* A call with the largest budget has failed in every attempt, the last on
\* schema validation, and its error carries the prefix once.
C30_Witness ==
  \E c \in Calls :
    /\ call[c].pc = "failed"
    /\ call[c].retries0 = MaxRetries
    /\ call[c].failures = MaxRetries + 1
    /\ call[c].lastFail = Some("schema")
    /\ PrefixCount(Val(call[c].error).message) = 1


\* C31: on a client constructed without enableCaching, or with
\* enableCaching false, the cache is never touched, whatever cache object
\* was supplied.  No step changes the store; no call awaits a lookup or a
\* write or holds an entry it looked up; and every call that has started has
\* issued at least one vendor request, also when the store holds an entry
\* under the call's key.
C31_DisabledCachingIgnoresCache ==
  /\ [](enableCachingArg \in {None, Some(FALSE)} =>
          \A c \in Calls :
            call[c].pc # "idle" =>
              /\ call[c].pc \notin {"cacheGet", "cacheSet"}
              /\ call[c].hit = None
              /\ call[c].writes = 0
              /\ call[c].vendorReqs >= 1)
  /\ [][(enableCachingArg \in {None, Some(FALSE)}) => cache' = cache]_vars

\* A client constructed without enableCaching but with a cache that holds
\* an entry for the request: the call has returned the value of the vendor
\* reply, not the entry, and the entry is still there.
C31_Witness ==
  \E c \in Calls :
    /\ enableCachingArg = None
    /\ cache = PreloadedCache
    /\ call[c].pc = "done"
    /\ KeyOf(call[c]) \in DOMAIN cache
    /\ call[c].vendorReqs = 1
    /\ call[c].result # Some(cache[KeyOf(call[c])])


\* C32: the temperature of the vendor request is the caller's temperature
\* when the caller gave one, 0 included, and the default 0.7 only when the
\* caller gave none; the cache key holds the caller's temperature as given.
C32_CallerTemperatureSent ==
  Formatted =>
    LET options == Val(fmtIn)
        request == Val(fmtOut)
    IN /\ request.temperature =
            IF IsSome(options.temperature)
              THEN Val(options.temperature) ELSE DefaultTemperature
       /\ cacheOptions(ClientModel, options).temperature = options.temperature


\* The counter of a vendor reply's usage, 0 when the usage or the counter is
\* missing.
GivenCounter(r, f) ==
  IF IsSome(r.usage) /\ IsSome(Val(r.usage)[f]) THEN Val(Val(r.usage)[f]) ELSE 0

\* The usage has the three counters, each the vendor's or 0.
UsageComplete(usage, r) ==
  /\ DOMAIN usage = {"prompt_tokens", "completion_tokens", "total_tokens"}
  /\ \A f \in DOMAIN usage : usage[f] \in Nat /\ usage[f] = GivenCounter(r, f)

\* C33: the canonical response a call without response_model hands to the
\* cache and returns has one choice, with index 0 and role assistant; its
\* tool_calls is the vendor's list or the empty list; its finish_reason is
\* the vendor's or "stop"; its model is the client's model name; its content
\* is the vendor's text, or null when the vendor gave none or the empty
\* string; its usage has the three counters, each the vendor's or 0.  The
\* usage of a structured result is complete in the same way.
C33_CanonicalResponseShape ==
  \A c \in Calls :
    (call[c].pc \in {"cacheSet", "done"} /\ call[c].hit = None) =>
      LET r == Val(call[c].reply)
          out == Val(IF call[c].pc = "done"
                       THEN call[c].result ELSE call[c].pending)
      IN /\ UsageComplete(out.usage, r)
         /\ ~HasModel(call[c]) =>
              /\ Len(out.choices) = 1
              /\ out.choices[1].index = 0
              /\ out.choices[1].message.role = "assistant"
              /\ out.choices[1].message.tool_calls =
                   (IF IsSome(r.tool_calls) THEN Val(r.tool_calls) ELSE <<>>)
              /\ out.choices[1].finish_reason =
                   (IF IsSome(r.finish_reason) /\ Val(r.finish_reason) # ""
                      THEN Val(r.finish_reason) ELSE "stop")
              /\ out.model = ClientModel
              /\ out.choices[1].message.content =
                   (IF IsSome(r.content) /\ Len(Val(r.content)) > 0
                      THEN r.content ELSE None)

\* A reply with empty content and no tool_calls, finish_reason or usage has
\* been returned as null content, an empty list, "stop" and three zeros.
C33_Witness ==
  \E c \in Calls :
    /\ call[c].pc = "done"
    /\ ~HasModel(call[c])
    /\ call[c].hit = None
    /\ Val(call[c].reply).content = Some(<<>>)
    /\ Val(call[c].reply).tool_calls = None
    /\ Val(call[c].reply).finish_reason = None
    /\ Val(call[c].reply).usage = None
    /\ Val(call[c].result).choices[1].message.content = None
    /\ Val(call[c].result).choices[1].finish_reason = "stop"
    /\ Val(call[c].result).usage.total_tokens = 0


\* C34: when the task callback has returned, every wrapper whose init()
\* succeeded has had close() called on it, on the path without an error and
\* on every path with one, and the callback has returned a result, with
\* _success false whenever something was thrown.
C34_InitializedWrappersClosed ==
  task.pc = "returned" =>
    /\ task.runner # "open"
    /\ task.own # "open"
    /\ IsSome(task.result)
    /\ task.threw => ~Val(task.result)._success

=============================================================================
